---- MODULE Spec2Model ----
(***************************************************************************)
(* Auto-batching proxy: the dispatcher (batch_processor.rs), the           *)
(* submission gateway (routes.rs, request_handler.rs) and the mapping of   *)
(* upstream failures (inference_client.rs).                                *)
(*                                                                         *)
(* Time is counted in dispatcher tick periods (batch_check_interval_ms) and *)
(* kept relative: instead of an Instant the model keeps what the code      *)
(* computes from it, received_at.elapsed() of a request that waits for the *)
(* dispatcher (saturating at max_wait_time_ms, the only value it is        *)
(* compared with; 0 again once the request is in a batch, where it is no   *)
(* longer read) and the time left on a running gateway timeout (0 once the *)
(* call has returned).  Measured durations that only go into               *)
(* BatchInfo are the token Measured.  An Option<T> is a sequence of        *)
(* length 0 or 1.                                                          *)
(* A PendingRequest is named by the number of the gateway call that built  *)
(* it; its fields are request[id] and its reply handle is                  *)
(* response_channel[id].                                                   *)
(***************************************************************************)
EXTENDS Integers, Sequences, FiniteSets, TLC

\* ---- bounds of the model ----
MaxRequests == 2

\* ---- program constants (scaled to the model's time unit) ----
REQUEST_SLACK == 1

VARIABLES
    args,              \* the Option<Args> given to AppConfig::build (None: no arguments)
    config,            \* AppConfig, immutable after construction
    tick_ready,        \* batch_interval has a tick the dispatcher has not consumed
    dispatcher,        \* the run_batch_processor task: "not_started", "running", "gone"
                       \* with its receiver, or "exited" with the process
    request,           \* id -> PendingRequest {inputs} (Option)
    elapsed,           \* id -> received_at.elapsed() while the request is not yet batched
    gateway,           \* id -> state of the /embed call: pc, time left, outcome
    request_channel,   \* the mpsc submission channel (ids, FIFO)
    pending_requests,  \* the dispatcher's VecDeque<PendingRequest>
    BATCH_COUNTER,     \* the process-wide AtomicU64
    batches,           \* the spawned process_batch tasks, in spawn order
    response_channel,  \* id -> the oneshot reply channel: receiver state, slot
    sent               \* id -> the values passed to response_sender.send, in order

vars == <<args, config, tick_ready, dispatcher, request, elapsed, gateway, request_channel,
          pending_requests, BATCH_COUNTER, batches, response_channel, sent>>

\* The gateway calls of the run, numbered in the order they are made.
Ids == DOMAIN request

None == <<>>
Some(x) == <<x>>

\* ---- types.rs ----
MaxBatchSize == "max_batch_size"
MaxWaitTimeMs == "max_wait_time_ms"

\* The j-th input string of gateway call id: distinct strings, so that an
\* embedding names the input it was computed from.
InputsOf(id, n) == [k \in 1..n |-> <<id, k>>]

NumInputs(id) == Len(request[id][1].inputs)

RECURSIVE Flatten(_)
Flatten(ss) == IF ss = <<>> THEN <<>> ELSE Head(ss) \o Flatten(Tail(ss))

\* Mutant of prepare_request: the inputs are collected from the last request
\* of the batch to the first.
prepare_request_reversed(batch) ==
    Flatten([i \in 1..Len(batch) |-> request[batch[Len(batch) + 1 - i]][1].inputs])

\* BatchRequest::prepare_request: flat_map over the batch, in batch order.
prepare_request(batch) == Flatten([i \in 1..Len(batch) |-> request[batch[i]][1].inputs])

\* ---- batch_processor.rs: the dispatcher ----

\* Mutant of scan_batch: the loop without the max_inference_inputs test.
RECURSIVE scan_batch_no_input_cap(_, _, _, _)
scan_batch_no_input_cap(queue, i, batch_size, inputs_count) ==
    IF i > Len(queue) THEN batch_size
    ELSE IF batch_size >= config.max_batch_size
         THEN batch_size
         ELSE scan_batch_no_input_cap(queue, i + 1, batch_size + 1,
                                      inputs_count + NumInputs(queue[i]))

\* Mutant of scan_batch: the size test counts the request it is about to take.
RECURSIVE scan_batch_breaks_early(_, _, _, _)
scan_batch_breaks_early(queue, i, batch_size, inputs_count) ==
    IF i > Len(queue) THEN batch_size
    ELSE IF \/ batch_size + 1 >= config.max_batch_size
            \/ (inputs_count + NumInputs(queue[i])) > config.max_inference_inputs
         THEN batch_size
         ELSE scan_batch_breaks_early(queue, i + 1, batch_size + 1,
                                      inputs_count + NumInputs(queue[i]))

\* Mutant of scan_batch: the first request of the queue is taken whatever
\* its input count.
RECURSIVE scan_batch_admits_head(_, _, _, _)
scan_batch_admits_head(queue, i, batch_size, inputs_count) ==
    IF i > Len(queue) THEN batch_size
    ELSE IF \/ batch_size >= config.max_batch_size
            \/ /\ batch_size > 0
               /\ (inputs_count + NumInputs(queue[i])) > config.max_inference_inputs
         THEN batch_size
         ELSE scan_batch_admits_head(queue, i + 1, batch_size + 1,
                                     inputs_count + NumInputs(queue[i]))

\* Mutant of scan_batch: a request that brings the input sum to exactly
\* max_inference_inputs is not taken.
RECURSIVE scan_batch_strict_input_cap(_, _, _, _)
scan_batch_strict_input_cap(queue, i, batch_size, inputs_count) ==
    IF i > Len(queue) THEN batch_size
    ELSE IF \/ batch_size >= config.max_batch_size
            \/ (inputs_count + NumInputs(queue[i])) >= config.max_inference_inputs
         THEN batch_size
         ELSE scan_batch_strict_input_cap(queue, i + 1, batch_size + 1,
                                          inputs_count + NumInputs(queue[i]))

\* The `for request in pending_requests.iter()` loop of build_safe_batch:
\* i is the position of the iterator, the result is batch_size at the break
\* or at the end of the queue.
RECURSIVE scan_batch(_, _, _, _)
scan_batch(queue, i, batch_size, inputs_count) ==
    IF i > Len(queue) THEN batch_size
    ELSE IF \/ batch_size >= config.max_batch_size
            \/ (inputs_count + NumInputs(queue[i])) > config.max_inference_inputs
         THEN batch_size
         ELSE scan_batch(queue, i + 1, batch_size + 1, inputs_count + NumInputs(queue[i]))

\* Mutant of build_safe_batch: the queue is emptied, the requests behind
\* the batch go nowhere.
build_safe_batch_clears_queue(queue) ==
    LET batch_size == scan_batch(queue, 1, 0, 0)
    IN  [batch |-> SubSeq(queue, 1, batch_size),
         rest  |-> <<>>]

\* Mutant of build_safe_batch: the batch is drained from the back of the queue.
build_safe_batch_from_back(queue) ==
    LET batch_size == scan_batch(queue, 1, 0, 0)
    IN  [batch |-> SubSeq(queue, Len(queue) - batch_size + 1, Len(queue)),
         rest  |-> SubSeq(queue, 1, Len(queue) - batch_size)]

\* build_safe_batch: pending_requests.drain(..batch_size).collect()
build_safe_batch(queue) ==
    LET batch_size == scan_batch(queue, 1, 0, 0)
    IN  [batch |-> SubSeq(queue, 1, batch_size),
         rest  |-> SubSeq(queue, batch_size + 1, Len(queue))]

\* Mutant of new_batch_info: batch_wait_time_ms is set under either trigger.
new_batch_info_always_wait(counter, batch_type, batch_size) ==
    [batch_id           |-> counter,
     batch_type         |-> batch_type,
     batch_size         |-> Some(batch_size),
     batch_wait_time_ms |-> Some(config.max_wait_time_ms),
     inference_time_ms  |-> None,
     processing_time_ms |-> None]

\* The BatchInfo built by process_pending_requests when include_batch_info.
new_batch_info(counter, batch_type, batch_size) ==
    [batch_id           |-> counter,
     batch_type         |-> batch_type,
     batch_size         |-> Some(batch_size),
     batch_wait_time_ms |-> IF batch_type = MaxBatchSize
                            THEN None ELSE Some(config.max_wait_time_ms),
     inference_time_ms  |-> None,
     processing_time_ms |-> None]

\* One process_batch task as spawned by process_pending_requests.  reqs,
\* batch_info and state are the task's data, called_for is how long its
\* upstream call has lasted (counted where the upstream is timed); batch_type (the
\* trigger passed to the call), woken_by, queue_before, queue_after and result
\* record how the batch came about and what the upstream answered.
spawn_task(b, queue, counter, batch_type, woken_by) ==
    [reqs         |-> b.batch,
     batch_info   |-> IF config.include_batch_info
                      THEN Some(new_batch_info(counter, batch_type, Len(b.batch)))
                      ELSE None,
     state        |-> "in_flight",
     called_for   |-> 0,
     batch_type   |-> batch_type,
     woken_by     |-> woken_by,
     queue_before |-> queue,
     queue_after  |-> b.rest,
     result       |-> None]

\* Mutant of process_pending_requests: the counter is advanced twice for a
\* batch.
RECURSIVE process_pending_requests_double_add(_, _, _, _)
process_pending_requests_double_add(queue, counter, batch_type, woken_by) ==
    IF queue = <<>> THEN [queue |-> queue, counter |-> counter, spawned |-> <<>>]
    ELSE LET b == build_safe_batch(queue) IN
         IF b.batch = <<>>
         THEN [queue |-> queue, counter |-> counter, spawned |-> <<>>]
         ELSE LET counter2 == IF config.include_batch_info THEN counter + 2 ELSE counter
                  task == spawn_task(b, queue, counter, batch_type, woken_by)
                  more == process_pending_requests_double_add(b.rest, counter2, batch_type,
                                                              woken_by)
              IN  [queue   |-> more.queue,
                   counter |-> more.counter,
                   spawned |-> <<task>> \o more.spawned]

\* Mutant of process_pending_requests: the counter is read and not advanced.
RECURSIVE process_pending_requests_load_only(_, _, _, _)
process_pending_requests_load_only(queue, counter, batch_type, woken_by) ==
    IF queue = <<>> THEN [queue |-> queue, counter |-> counter, spawned |-> <<>>]
    ELSE LET b == build_safe_batch(queue) IN
         IF b.batch = <<>>
         THEN [queue |-> queue, counter |-> counter, spawned |-> <<>>]
         ELSE LET task == spawn_task(b, queue, counter, batch_type, woken_by)
                  more == process_pending_requests_load_only(b.rest, counter, batch_type,
                                                             woken_by)
              IN  [queue   |-> more.queue,
                   counter |-> more.counter,
                   spawned |-> <<task>> \o more.spawned]

\* Mutant of process_pending_requests: one batch per call, without the loop.
process_pending_requests_once(queue, counter, batch_type, woken_by) ==
    IF queue = <<>> THEN [queue |-> queue, counter |-> counter, spawned |-> <<>>]
    ELSE LET b == build_safe_batch(queue) IN
         IF b.batch = <<>>
         THEN [queue |-> queue, counter |-> counter, spawned |-> <<>>]
         ELSE [queue   |-> b.rest,
               counter |-> IF config.include_batch_info THEN counter + 1 ELSE counter,
               spawned |-> <<spawn_task(b, queue, counter, batch_type, woken_by)>>]

\* process_pending_requests: the `while !pending_requests.is_empty()` loop.
\* The result is the queue left, the counter after the fetch_adds and the
\* tasks spawned, in spawn order.
RECURSIVE process_pending_requests(_, _, _, _)
process_pending_requests(queue, counter, batch_type, woken_by) ==
    IF queue = <<>> THEN [queue |-> queue, counter |-> counter, spawned |-> <<>>]
    ELSE LET b == build_safe_batch(queue) IN
         IF b.batch = <<>>
         THEN [queue |-> queue, counter |-> counter, spawned |-> <<>>]
         ELSE LET counter2 == IF config.include_batch_info THEN counter + 1 ELSE counter
                  task == spawn_task(b, queue, counter, batch_type, woken_by)
                  more == process_pending_requests(b.rest, counter2, batch_type, woken_by)
              IN  [queue   |-> more.queue,
                   counter |-> more.counter,
                   spawned |-> <<task>> \o more.spawned]

\* Mutant of handle_max_wait_time_ms: the drain it starts is tagged with the
\* size trigger.
handle_max_wait_time_ms_size_tag(st, woken_by) ==
    IF st.queue /= <<>> /\ elapsed[Head(st.queue)] >= config.max_wait_time_ms
    THEN LET r == process_pending_requests(st.queue, st.counter, MaxBatchSize, woken_by)
         IN  [queue |-> r.queue, counter |-> r.counter, spawned |-> st.spawned \o r.spawned]
    ELSE st

\* Mutant of handle_max_wait_time_ms: the age of the head is not looked at.
handle_max_wait_time_ms_ignores_age(st, woken_by) ==
    IF st.queue /= <<>>
    THEN LET r == process_pending_requests(st.queue, st.counter, MaxWaitTimeMs, woken_by)
         IN  [queue |-> r.queue, counter |-> r.counter, spawned |-> st.spawned \o r.spawned]
    ELSE st

\* Mutant of handle_max_wait_time_ms: the drain takes the requests that are
\* past their own deadline and leaves the younger ones queued.
handle_max_wait_time_ms_only_due(st, woken_by) ==
    IF st.queue /= <<>> /\ elapsed[Head(st.queue)] >= config.max_wait_time_ms
    THEN LET due == SelectSeq(st.queue, LAMBDA q : elapsed[q] >= config.max_wait_time_ms)
             young == SelectSeq(st.queue, LAMBDA q : elapsed[q] < config.max_wait_time_ms)
             r == process_pending_requests(due, st.counter, MaxWaitTimeMs, woken_by)
         IN  [queue |-> r.queue \o young, counter |-> r.counter,
              spawned |-> st.spawned \o r.spawned]
    ELSE st

\* handle_max_wait_time_ms, applied to the dispatcher state st of this iteration.
handle_max_wait_time_ms(st, woken_by) ==
    IF st.queue /= <<>> /\ elapsed[Head(st.queue)] >= config.max_wait_time_ms
    THEN LET r == process_pending_requests(st.queue, st.counter, MaxWaitTimeMs, woken_by)
         IN  [queue |-> r.queue, counter |-> r.counter, spawned |-> st.spawned \o r.spawned]
    ELSE st

\* Mutant of on_request: push_front instead of push_back.
on_request_push_front(st, id) ==
    LET queue == <<id>> \o st.queue IN
    IF Len(queue) >= config.max_batch_size
    THEN process_pending_requests(queue, st.counter, MaxBatchSize, "arrival")
    ELSE [st EXCEPT !.queue = queue]

\* Mutant of on_request: the size-triggered drain works on a copy of the
\* queue, the queue itself keeps its requests.
on_request_keeps_queue(st, id) ==
    LET queue == Append(st.queue, id) IN
    IF Len(queue) >= config.max_batch_size
    THEN [process_pending_requests(queue, st.counter, MaxBatchSize, "arrival")
            EXCEPT !.queue = queue]
    ELSE [st EXCEPT !.queue = queue]

\* Mutant of on_request: the size trigger fires above max_batch_size, not at it.
on_request_size_above(st, id) ==
    LET queue == Append(st.queue, id) IN
    IF Len(queue) > config.max_batch_size
    THEN process_pending_requests(queue, st.counter, MaxBatchSize, "arrival")
    ELSE [st EXCEPT !.queue = queue]

\* The `request_receiver.recv()` branch of the select!, before the age check.
on_request(st, id) ==
    LET queue == Append(st.queue, id) IN
    IF Len(queue) >= config.max_batch_size
    THEN process_pending_requests(queue, st.counter, MaxBatchSize, "arrival")
    ELSE [st EXCEPT !.queue = queue]

DispatcherState == [queue |-> pending_requests, counter |-> BATCH_COUNTER, spawned |-> <<>>]

InBatch(spawned, id) ==
    \E k \in 1..Len(spawned) : \E i \in 1..Len(spawned[k].reqs) : spawned[k].reqs[i] = id

Commit(st) ==
    /\ pending_requests' = st.queue
    /\ elapsed' = [id \in Ids |-> IF InBatch(st.spawned, id) THEN 0 ELSE elapsed[id]]
    /\ BATCH_COUNTER' = st.counter
    /\ batches' = batches \o st.spawned

\* Mutant of DispatcherRecv: the loop awaits the batches it has spawned
\* before it takes the next request.
DispatcherRecv_awaits_batches ==
    /\ dispatcher = "running"
    /\ \A k \in 1..Len(batches) : batches[k].state = "done"
    /\ request_channel /= <<>>
    /\ request_channel' = Tail(request_channel)
    /\ Commit(handle_max_wait_time_ms(on_request(DispatcherState, Head(request_channel)),
                                      "arrival"))
    /\ UNCHANGED <<args, config, tick_ready, dispatcher, request, gateway, response_channel, sent>>

\* One iteration of run_batch_processor's loop taken by the recv() branch.
DispatcherRecv ==
    /\ dispatcher = "running"
    /\ request_channel /= <<>>
    /\ request_channel' = Tail(request_channel)
    /\ Commit(handle_max_wait_time_ms(on_request(DispatcherState, Head(request_channel)),
                                      "arrival"))
    /\ UNCHANGED <<args, config, tick_ready, dispatcher, request, gateway, response_channel, sent>>

\* Mutant of DispatcherTick: the tick is consumed and the age check is not
\* run.
DispatcherTick_without_age_check ==
    /\ dispatcher = "running"
    /\ tick_ready
    /\ tick_ready' = FALSE
    /\ UNCHANGED <<args, config, dispatcher, request, elapsed, gateway, request_channel, pending_requests,
                   BATCH_COUNTER, batches, response_channel, sent>>

\* One iteration taken by the batch_interval.tick() branch.
DispatcherTick ==
    /\ dispatcher = "running"
    /\ tick_ready
    /\ tick_ready' = FALSE
    /\ Commit(handle_max_wait_time_ms(DispatcherState, "tick"))
    /\ UNCHANGED <<args, config, dispatcher, request, gateway, request_channel, response_channel, sent>>

\* Saturating steps of the relative clocks.
Older(t, cap) == IF t < cap THEN t + 1 ELSE cap
Less(t) == IF t > 0 THEN t - 1 ELSE 0

InChannelOrQueue(id) ==
    \/ \E i \in 1..Len(request_channel) : request_channel[i] = id
    \/ \E i \in 1..Len(pending_requests) : pending_requests[i] = id

\* One tick period passes: every request still waiting for the dispatcher
\* is older, every gateway timeout still waiting for a value has less left
\* (once the value is in the slot the receiver is ready and the timer is no
\* longer looked at), and the interval timer is ready.
AdvanceTime ==
    /\ elapsed' = [id \in Ids |->
                     IF InChannelOrQueue(id)
                     THEN Older(elapsed[id], config.max_wait_time_ms)
                     ELSE elapsed[id]]
    /\ gateway' = [id \in Ids |->
                     IF gateway[id].pc = "waiting" /\ response_channel[id].slot = None
                     THEN [gateway[id] EXCEPT !.left = Less(@)]
                     ELSE gateway[id]]
    /\ tick_ready' = TRUE
    /\ UNCHANGED <<args, config, dispatcher, request, request_channel, pending_requests,
                   BATCH_COUNTER, batches, response_channel, sent>>

\* ---- inference_client.rs ----

NetworkError == [kind |-> "NetworkError", status |-> 0]
ParseError == [kind |-> "ParseError", status |-> 0]
HttpError(status) == [kind |-> "HttpError", status |-> status]

\* reqwest's StatusCode::is_success
is_success(status) == status >= 200 /\ status <= 299

\* The counts of embeddings a parsable 2xx body holds in the model: one per
\* flat input, one fewer, one more.
AnswerLengths(flat) == {n \in {Len(flat) - 1, Len(flat), Len(flat) + 1} : n >= 0}

\* What the upstream does with one call: the transport fails, or it answers
\* with one of `statuses` and a body; the body of a 2xx answer is either not a
\* JSON array of arrays (parses = FALSE) or a list of n embeddings.
UpstreamAnswers(flat, statuses) ==
    {[transport |-> FALSE, status |-> 0, parses |-> FALSE, n |-> 0]}
    \cup {[transport |-> TRUE, status |-> st, parses |-> FALSE, n |-> 0] :
            st \in statuses}
    \cup {[transport |-> TRUE, status |-> st, parses |-> TRUE, n |-> n] :
            st \in {x \in statuses : is_success(x)}, n \in AnswerLengths(flat)}

\* The statuses the upstream answers with under Spec.
UpstreamStatuses == {200, 404}

\* The embedding the upstream computes for one input string; Surplus is an
\* embedding that belongs to no input.
embedding_of(input) == [of |-> input]
Surplus == [of |-> <<0, 0>>]

\* The array of n embeddings answered for the flat request: one per input, in
\* order, cut short or followed by surplus embeddings when n differs.
EmbeddingsFor(flat, n) ==
    [j \in 1..n |-> IF j <= Len(flat) THEN embedding_of(flat[j]) ELSE Surplus]

\* InferenceServiceClient::call_service: Result<BatchResponse, InferenceError>
call_service(flat, answer) ==
    IF ~answer.transport
    THEN [ok |-> FALSE, embeddings |-> <<>>, error |-> NetworkError]
    ELSE IF ~is_success(answer.status)
    THEN [ok |-> FALSE, embeddings |-> <<>>, error |-> HttpError(answer.status)]
    ELSE IF ~answer.parses
    THEN [ok |-> FALSE, embeddings |-> <<>>, error |-> ParseError]
    ELSE [ok |-> TRUE, embeddings |-> EmbeddingsFor(flat, answer.n), error |-> NetworkError]

\* Mutant of to_rocket_status: the 4xx range ends one status early.
to_rocket_status_short_4xx(error) ==
    CASE error.kind = "NetworkError" -> 503
      [] error.kind = "HttpError" ->
            IF error.status >= 400 /\ error.status < 499 THEN 400
            ELSE IF error.status >= 500 /\ error.status <= 599 THEN 503
            ELSE 500
      [] error.kind = "ParseError" -> 500

\* InferenceError::to_rocket_status
to_rocket_status(error) ==
    CASE error.kind = "NetworkError" -> 503
      [] error.kind = "HttpError" ->
            IF error.status >= 400 /\ error.status <= 499 THEN 400
            ELSE IF error.status >= 500 /\ error.status <= 599 THEN 503
            ELSE 500
      [] error.kind = "ParseError" -> 500

\* InferenceError::message: the prefix of the text and the status it prints.
message(error) ==
    CASE error.kind = "NetworkError" -> [prefix |-> "Network error", status |-> 0]
      [] error.kind = "HttpError" -> [prefix |-> "HTTP", status |-> error.status]
      [] error.kind = "ParseError" -> [prefix |-> "Parse error", status |-> 0]

\* ---- the values sent on a reply channel ----
\* Result<EmbedResponse, Custom<Json<ErrorResponse>>>, with the HTTP status
\* the route answers with.
NoMessage == [prefix |-> "", status |-> 0]
OkResponse(embeddings, batch_info) ==
    [ok |-> TRUE, status |-> 200, embeddings |-> embeddings,
     batch_info |-> batch_info, error |-> NoMessage]
ErrResponse(status, error) ==
    [ok |-> FALSE, status |-> status, embeddings |-> <<>>,
     batch_info |-> None, error |-> error]

\* ---- batch_processor.rs: process_batch ----

\* Mutant of slice_or_default: a slice that ends past the array is cut to
\* the embeddings that are there.
slice_or_default_clamped(embeddings, start_idx, end_idx) ==
    IF start_idx <= end_idx /\ end_idx <= Len(embeddings)
    THEN SubSeq(embeddings, start_idx + 1, end_idx)
    ELSE SubSeq(embeddings, start_idx + 1, Len(embeddings))

\* embeddings.get(start_idx..end_idx).map(to_vec).unwrap_or_default(),
\* with 0-based half-open indices as in the source.
slice_or_default(embeddings, start_idx, end_idx) ==
    IF start_idx <= end_idx /\ end_idx <= Len(embeddings)
    THEN SubSeq(embeddings, start_idx + 1, end_idx)
    ELSE <<>>

\* A measured duration.
Measured == "measured"

\* Mutant of delivered_info: batch_size is set to the index of the last
\* request of the batch.
delivered_info_last_index(batch_info, batch_size) ==
    IF batch_info = None THEN None
    ELSE Some([batch_info[1] EXCEPT !.inference_time_ms = Some(Measured),
                                    !.batch_size = Some(batch_size - 1),
                                    !.processing_time_ms = Some(Measured)])

\* The batch_info attached to the responses of a batch: inference_time_ms
\* and processing_time_ms filled in at delivery.
delivered_info(batch_info, batch_size) ==
    IF batch_info = None THEN None
    ELSE Some([batch_info[1] EXCEPT !.inference_time_ms = Some(Measured),
                                    !.batch_size = Some(batch_size),
                                    !.processing_time_ms = Some(Measured)])

\* One response_sender.send(value) of a batch task: the request written to
\* and the value.
Send(id, value) == [to |-> id, value |-> value]

\* Mutant of handle_batch_success: the loop ends at the first slice that is
\* out of range.
RECURSIVE handle_batch_success_stops(_, _, _, _, _)
handle_batch_success_stops(batch, embeddings, batch_info, i, current_index) ==
    IF i > Len(batch) THEN <<>>
    ELSE LET start_idx == current_index
             end_idx == start_idx + NumInputs(batch[i])
             response == OkResponse(slice_or_default(embeddings, start_idx, end_idx),
                                    batch_info)
         IN  IF end_idx > Len(embeddings) THEN <<>>
             ELSE <<Send(batch[i], response)>>
                  \o handle_batch_success_stops(batch, embeddings, batch_info,
                                                i + 1, end_idx)

\* Mutant of handle_batch_success: a request whose slice is empty is passed
\* over, nothing is sent to it.
RECURSIVE handle_batch_success_skips_empty(_, _, _, _, _)
handle_batch_success_skips_empty(batch, embeddings, batch_info, i, current_index) ==
    IF i > Len(batch) THEN <<>>
    ELSE LET start_idx == current_index
             end_idx == start_idx + NumInputs(batch[i])
             individual_embeddings == slice_or_default(embeddings, start_idx, end_idx)
             response == OkResponse(individual_embeddings, batch_info)
         IN  (IF individual_embeddings = <<>> THEN <<>> ELSE <<Send(batch[i], response)>>)
             \o handle_batch_success_skips_empty(batch, embeddings, batch_info,
                                                 i + 1, end_idx)

\* Mutant of handle_batch_success: the last request of the batch is given
\* the embeddings up to the end of the answer.
RECURSIVE handle_batch_success_gives_rest(_, _, _, _, _)
handle_batch_success_gives_rest(batch, embeddings, batch_info, i, current_index) ==
    IF i > Len(batch) THEN <<>>
    ELSE LET start_idx == current_index
             end_idx == IF i = Len(batch) /\ Len(embeddings) > start_idx
                        THEN Len(embeddings)
                        ELSE start_idx + NumInputs(batch[i])
             response == OkResponse(slice_or_default(embeddings, start_idx, end_idx),
                                    batch_info)
         IN  <<Send(batch[i], response)>>
             \o handle_batch_success_gives_rest(batch, embeddings, batch_info, i + 1, end_idx)

\* handle_batch_success: the sends of the `for pending_request in batch` loop
\* from position i on, current_index being the offset reached.
RECURSIVE handle_batch_success(_, _, _, _, _)
handle_batch_success(batch, embeddings, batch_info, i, current_index) ==
    IF i > Len(batch) THEN <<>>
    ELSE LET start_idx == current_index
             end_idx == start_idx + NumInputs(batch[i])
             response == OkResponse(slice_or_default(embeddings, start_idx, end_idx),
                                    batch_info)
         IN  <<Send(batch[i], response)>>
             \o handle_batch_success(batch, embeddings, batch_info, i + 1, end_idx)

\* Mutant of handle_batch_error: the error_response is moved into the first
\* send, the other requests of the batch get nothing.
handle_batch_error_first_only(batch, error) ==
    LET error_response == ErrResponse(to_rocket_status(error), message(error))
    IN  IF batch = <<>> THEN <<>> ELSE <<Send(batch[1], error_response)>>

\* handle_batch_error: one error_response, a clone of it sent to every request.
handle_batch_error(batch, error) ==
    LET error_response == ErrResponse(to_rocket_status(error), message(error))
    IN  [i \in 1..Len(batch) |-> Send(batch[i], error_response)]

\* Mutant of process_batch: a success with too few embeddings is delivered
\* and then failed as a whole, so that requests are written to twice.
process_batch_resend(task, result) ==
    IF result.ok
    THEN handle_batch_success(task.reqs, result.embeddings,
                              delivered_info(task.batch_info, Len(task.reqs)), 1, 0)
         \o (IF Len(result.embeddings) < Len(prepare_request(task.reqs))
             THEN handle_batch_error(task.reqs, ParseError) ELSE <<>>)
    ELSE handle_batch_error(task.reqs, result.error)

\* process_batch after call_service has returned `result`: the sends it
\* makes, in order.
process_batch(task, result) ==
    IF result.ok
    THEN handle_batch_success(task.reqs, result.embeddings,
                              delivered_info(task.batch_info, Len(task.reqs)), 1, 0)
    ELSE handle_batch_error(task.reqs, result.error)

\* oneshot::Sender::send on the reply channel of request id: the value lands
\* in the slot unless the receiver was dropped.
send_one(channels, id, value) ==
    IF channels[id].receiver = "waiting"
    THEN [channels EXCEPT ![id].slot = Some(value)]
    ELSE channels

\* Mutant of send_all: the loop ends at the first send that fails.
RECURSIVE send_all_stops_at_failure(_, _, _)
send_all_stops_at_failure(st, sends, i) ==
    IF i > Len(sends) THEN st
    ELSE LET next == [channels |-> send_one(st.channels, sends[i].to, sends[i].value),
                      sent |-> [st.sent EXCEPT ![sends[i].to] = Append(@, sends[i].value)]]
         IN  IF st.channels[sends[i].to].receiver /= "waiting" THEN next
             ELSE send_all_stops_at_failure(next, sends, i + 1)

\* The effect of a sequence of sends on the reply channels and on the log of
\* values sent.
RECURSIVE send_all(_, _, _)
send_all(st, sends, i) ==
    IF i > Len(sends) THEN st
    ELSE send_all([channels |-> send_one(st.channels, sends[i].to, sends[i].value),
                   sent |-> [st.sent EXCEPT ![sends[i].to] = Append(@, sends[i].value)]],
                  sends, i + 1)

\* The upstream call of task k returns and process_batch delivers.
UpstreamReturns(k, answer) ==
    /\ batches[k].state = "in_flight"
    /\ LET task == batches[k]
           result == call_service(prepare_request(task.reqs), answer)
           st == send_all([channels |-> response_channel, sent |-> sent],
                          process_batch(task, result), 1)
       IN  /\ batches' = [batches EXCEPT ![k].state = "done", ![k].result = Some(result)]
           /\ response_channel' = st.channels
           /\ sent' = st.sent
    /\ UNCHANGED <<args, config, tick_ready, dispatcher, request, elapsed, gateway,
                   request_channel, pending_requests, BATCH_COUNTER>>

\* ---- routes.rs and request_handler.rs: the submission gateway ----

EmptyInputsMessage == [prefix |-> "`inputs` can't be empty", status |-> 0]
TooManyInputsMessage == [prefix |-> "`inputs` can't be greater than", status |-> 0]
TimedOutMessage == [prefix |-> "Request timed out", status |-> 0]
FailedToQueueMessage == [prefix |-> "Failed to queue request", status |-> 0]
ChannelClosedMessage == [prefix |-> "Response channel closed", status |-> 0]

Calls == {id \in Ids : gateway[id].pc /= "idle"}

Finish(id, response) ==
    gateway' = [gateway EXCEPT ![id].pc = "done", ![id].left = 0,
                               ![id].outcome = Some(response)]

\* Mutant of Embed: the request is submitted first and validated afterwards.
Embed_validates_late(n, lag) ==
    /\ Cardinality(Calls) < Cardinality(Ids)
    /\ dispatcher = "running"
    /\ LET id == Cardinality(Calls) + 1 IN
       /\ request' = [request EXCEPT ![id] = Some([inputs |-> InputsOf(id, n)])]
       /\ elapsed' = [elapsed EXCEPT ![id] = lag]
       /\ request_channel' = Append(request_channel, id)
       /\ IF n = 0
          THEN /\ Finish(id, ErrResponse(400, EmptyInputsMessage))
               /\ response_channel' = [response_channel EXCEPT ![id].receiver = "dropped"]
          ELSE IF n > config.max_inference_inputs
          THEN /\ Finish(id, ErrResponse(400, TooManyInputsMessage))
               /\ response_channel' = [response_channel EXCEPT ![id].receiver = "dropped"]
          ELSE /\ response_channel' = [response_channel EXCEPT ![id].receiver = "waiting"]
               /\ gateway' = [gateway EXCEPT
                                ![id].pc = "waiting",
                                ![id].left = config.max_wait_time_ms + REQUEST_SLACK]
    /\ UNCHANGED <<args, config, tick_ready, dispatcher, pending_requests, BATCH_COUNTER,
                   batches, sent>>

\* routes::embed is called with n inputs: the two validations, then
\* process_request up to the start of the timeout: oneshot::channel(),
\* PendingRequest::new (the received_at stamp), request_sender.send (an error
\* when the receiver is gone, and the call ends), and
\* timeout(max_wait_time + 30 s, response_receiver).  The handlers run on a
\* multi-threaded runtime, so other handlers can stamp and send between this
\* one's stamp and its send: lag is the time the stamp is old when the
\* request is pushed onto the channel.
Embed(n, lag) ==
    /\ Cardinality(Calls) < Cardinality(Ids)
    /\ LET id == Cardinality(Calls) + 1 IN
       IF n = 0
       THEN /\ Finish(id, ErrResponse(400, EmptyInputsMessage))
            /\ UNCHANGED <<request, elapsed, response_channel, request_channel>>
       ELSE IF n > config.max_inference_inputs
       THEN /\ Finish(id, ErrResponse(400, TooManyInputsMessage))
            /\ UNCHANGED <<request, elapsed, response_channel, request_channel>>
       ELSE IF dispatcher = "gone"
       THEN /\ Finish(id, ErrResponse(500, FailedToQueueMessage))
            /\ UNCHANGED <<request, elapsed, response_channel, request_channel>>
       ELSE /\ request' = [request EXCEPT
                             ![id] = Some([inputs |-> InputsOf(id, n)])]
            /\ elapsed' = [elapsed EXCEPT ![id] = lag]
            /\ response_channel' = [response_channel EXCEPT ![id].receiver = "waiting"]
            /\ request_channel' = Append(request_channel, id)
            /\ gateway' = [gateway EXCEPT
                             ![id].pc = "waiting",
                             ![id].left = config.max_wait_time_ms + REQUEST_SLACK]
    /\ UNCHANGED <<args, config, tick_ready, dispatcher, pending_requests, BATCH_COUNTER,
                   batches, sent>>

\* The response_sender of request id was dropped without a send: the
\* request was in the submission channel or in the pending queue when the
\* dispatcher task ended; or it was in a batch, whose senders live in the
\* batch's own task, and process_batch returned without a send to it.
SenderDropped(id) ==
    /\ request[id] /= None
    /\ sent[id] = <<>>
    /\ \/ /\ dispatcher = "gone"
          /\ \A k \in 1..Len(batches) :
                \A i \in 1..Len(batches[k].reqs) : batches[k].reqs[i] /= id
       \/ \E k \in 1..Len(batches) :
             /\ batches[k].state = "done"
             /\ \E i \in 1..Len(batches[k].reqs) : batches[k].reqs[i] = id

\* Mutant of GatewayTimeout: the 408 does not wait for the timer.
GatewayTimeout_early(id) ==
    /\ gateway[id].pc = "waiting"
    /\ response_channel[id].slot = None
    /\ ~SenderDropped(id)
    /\ Finish(id, ErrResponse(408, TimedOutMessage))
    /\ response_channel' = [response_channel EXCEPT ![id].receiver = "dropped"]
    /\ UNCHANGED <<args, config, tick_ready, dispatcher, request, elapsed, request_channel,
                   pending_requests, BATCH_COUNTER, batches, sent>>

\* RequestHandler::process_request called with n inputs by a caller other
\* than routes::embed: the same steps, without the validations of the route.
ProcessRequest(n, lag) ==
    /\ Cardinality(Calls) < Cardinality(Ids)
    /\ LET id == Cardinality(Calls) + 1 IN
       IF dispatcher = "gone"
       THEN /\ Finish(id, ErrResponse(500, FailedToQueueMessage))
            /\ UNCHANGED <<request, elapsed, response_channel, request_channel>>
       ELSE /\ request' = [request EXCEPT
                             ![id] = Some([inputs |-> InputsOf(id, n)])]
            /\ elapsed' = [elapsed EXCEPT ![id] = lag]
            /\ response_channel' = [response_channel EXCEPT ![id].receiver = "waiting"]
            /\ request_channel' = Append(request_channel, id)
            /\ gateway' = [gateway EXCEPT
                             ![id].pc = "waiting",
                             ![id].left = config.max_wait_time_ms + REQUEST_SLACK]
    /\ UNCHANGED <<args, config, tick_ready, dispatcher, pending_requests, BATCH_COUNTER,
                   batches, sent>>

\* Mutant of GatewayTimeout: the handler that gives up takes its request out
\* of the pending queue.
GatewayTimeout_dequeues(id) ==
    /\ gateway[id].pc = "waiting"
    /\ response_channel[id].slot = None
    /\ ~SenderDropped(id)
    /\ gateway[id].left = 0
    /\ Finish(id, ErrResponse(408, TimedOutMessage))
    /\ response_channel' = [response_channel EXCEPT ![id].receiver = "dropped"]
    /\ pending_requests' = SelectSeq(pending_requests, LAMBDA q : q /= id)
    /\ UNCHANGED <<args, config, tick_ready, dispatcher, request, elapsed, request_channel,
                   BATCH_COUNTER, batches, sent>>

\* The timeout elapses before a reply: 408, and the receiver is dropped.
\* tokio's timeout polls the receiver before the timer, so a receiver that
\* is ready (a value, or a closed channel) wins over an elapsed timer.
GatewayTimeout(id) ==
    /\ gateway[id].pc = "waiting"
    /\ response_channel[id].slot = None
    /\ ~SenderDropped(id)
    /\ gateway[id].left = 0
    /\ Finish(id, ErrResponse(408, TimedOutMessage))
    /\ response_channel' = [response_channel EXCEPT ![id].receiver = "dropped"]
    /\ UNCHANGED <<args, config, tick_ready, dispatcher, request, elapsed, request_channel,
                   pending_requests, BATCH_COUNTER, batches, sent>>

\* The reply arrives: it is forwarded as it is.
GatewayReply(id) ==
    /\ gateway[id].pc = "waiting"
    /\ response_channel[id].slot /= None
    /\ Finish(id, response_channel[id].slot[1])
    /\ response_channel' = [response_channel EXCEPT ![id].receiver = "received"]
    /\ UNCHANGED <<args, config, tick_ready, dispatcher, request, elapsed, request_channel,
                   pending_requests, BATCH_COUNTER, batches, sent>>

\* The reply channel closes without a value: RecvError, 500.
GatewayClosed(id) ==
    /\ gateway[id].pc = "waiting"
    /\ response_channel[id].slot = None
    /\ SenderDropped(id)
    /\ Finish(id, ErrResponse(500, ChannelClosedMessage))
    /\ response_channel' = [response_channel EXCEPT ![id].receiver = "closed"]
    /\ UNCHANGED <<args, config, tick_ready, dispatcher, request, elapsed, request_channel,
                   pending_requests, BATCH_COUNTER, batches, sent>>

\* The run_batch_processor task ends (tokio::time::interval panics on a
\* batch_check_interval_ms of 0, which AppConfig::build lets through; or the
\* runtime shuts down): request_receiver and pending_requests are dropped,
\* and with them the requests they hold and their response_senders.
DispatcherGone ==
    /\ dispatcher = "running"
    /\ dispatcher' = "gone"
    /\ request_channel' = <<>>
    /\ pending_requests' = <<>>
    /\ UNCHANGED <<args, config, tick_ready, request, elapsed, gateway, BATCH_COUNTER,
                   batches, response_channel, sent>>

\* ---- the system ----

\* The configurations AppConfig::build can return that the model runs under.
Configs ==
    [max_batch_size       : {1, 2, 3},
     max_inference_inputs : {1, 2},
     max_wait_time_ms     : {1},
     include_batch_info   : BOOLEAN]

\* The time between a handler's stamp and its send, in tick periods.
StampLags == {0, 1}

\* The input counts of the calls: from none to one more than any configured cap.
InputCounts == {0, 1, 2, 3}

\* The state once RequestHandler::new has returned, for a run in which the
\* clients make `calls` gateway calls: AppConfig::build has consumed the
\* Args, the dispatcher task runs, nothing has been submitted.
Started(calls) ==
    /\ args = None
    /\ request = [id \in 1..calls |-> None]
    /\ tick_ready = FALSE
    /\ dispatcher = "running"
    /\ elapsed = [id \in Ids |-> 0]
    /\ gateway = [id \in Ids |-> [pc |-> "idle", left |-> 0, outcome |-> None]]
    /\ request_channel = <<>>
    /\ pending_requests = <<>>
    /\ BATCH_COUNTER = 1
    /\ batches = <<>>
    /\ response_channel = [id \in Ids |-> [receiver |-> "none", slot |-> None]]
    /\ sent = [id \in Ids |-> <<>>]

Init == config \in Configs /\ Started(MaxRequests)

Next ==
    \/ \E n \in InputCounts, lag \in StampLags :
          n <= config.max_inference_inputs + 1 /\ Embed(n, lag)
    \/ \E id \in Ids : GatewayTimeout(id)
    \/ \E id \in Ids : GatewayReply(id)
    \/ DispatcherRecv
    \/ DispatcherTick
    \/ AdvanceTime
    \/ \E k \in 1..Len(batches) :
          \E answer \in UpstreamAnswers(prepare_request(batches[k].reqs), UpstreamStatuses) :
             UpstreamReturns(k, answer)

Spec == Init /\ [][Next]_vars

\* ---- the system with ticks that keep occurring ----

\* The interval timer keeps firing (time passes) and the select! of the
\* dispatcher loop takes a ready tick() branch sooner or later.
\* BatchInfo plays no part in it and is left out.
InitLive == Init /\ ~config.include_batch_info

SpecLive == InitLive /\ [][Next]_vars /\ WF_vars(AdvanceTime) /\ WF_vars(DispatcherTick)

\* ---- the dispatcher fed by process_request without the route ----

\* The input counts of direct calls: up to one more than any configured cap.
DirectInputCounts == {1, 2, 3}

InitDirect == Init /\ config.include_batch_info

NextDirect ==
    \/ \E n \in DirectInputCounts, lag \in StampLags : ProcessRequest(n, lag)
    \/ \E id \in Ids : GatewayTimeout(id)
    \/ \E id \in Ids : GatewayReply(id)
    \/ DispatcherRecv
    \/ DispatcherTick
    \/ AdvanceTime
    \/ \E k \in 1..Len(batches) :
          \E answer \in UpstreamAnswers(prepare_request(batches[k].reqs), UpstreamStatuses) :
             UpstreamReturns(k, answer)

SpecDirect == InitDirect /\ [][NextDirect]_vars

\* The same callers, with time that keeps passing and handlers whose timeout,
\* once elapsed, is acted on: tokio's timer wakes the handler.
SpecBlocked ==
    /\ InitLive
    /\ [][NextDirect]_vars
    /\ WF_vars(AdvanceTime)
    /\ \A id \in 1..MaxRequests : WF_vars(GatewayTimeout(id))

\* ---- the system with a dispatcher task that can end ----

InitShutdown ==
    /\ Init
    /\ config = [max_batch_size |-> 2, max_inference_inputs |-> 2,
                 max_wait_time_ms |-> 1, include_batch_info |-> FALSE]

NextShutdown ==
    \/ Next
    \/ DispatcherGone
    \/ \E id \in Ids : GatewayClosed(id)

SpecShutdown == InitShutdown /\ [][NextShutdown]_vars

\* ---- configuration construction and launch ----

\* impl Default for AppConfig.
AppConfigDefault ==
    [port                    |-> 3000,
     max_wait_time_ms        |-> 500,
     max_batch_size          |-> 8,
     batch_check_interval_ms |-> 10,
     include_batch_info      |-> FALSE,
     inference_url           |-> "http://127.0.0.1:8080/embed",
     inference_timeout_secs  |-> 30,
     max_inference_inputs    |-> 32,
     log_level               |-> "info"]

\* The options of Args.
ArgsFields == DOMAIN AppConfigDefault

\* Option<T> for the values S of T.
Option(S) == {None} \cup {Some(x) : x \in S}

\* rocket's LogLevel and its Display, which is lower case already.
LogLevel == {"Critical", "Normal", "Debug", "Off"}

LogLevelToString(level) ==
    CASE level = "Critical" -> "critical"
      [] level = "Normal"   -> "normal"
      [] level = "Debug"    -> "debug"
      [] level = "Off"      -> "off"

\* The command lines the model is launched with: every option absent or
\* present, the two validated ones with 0 among their values.
ArgsValues ==
    [port                    : Option({5000}),
     max_wait_time_ms        : Option({0, 1, 500}),
     max_batch_size          : Option({0, 1, 25}),
     batch_check_interval_ms : Option({0, 100}),
     include_batch_info      : Option(BOOLEAN),
     inference_url           : Option({"http://upstream/embed"}),
     inference_timeout_secs  : Option({0, 5}),
     max_inference_inputs    : Option({0, 16}),
     log_level               : Option(LogLevel)]

Ok(v) == [ok |-> TRUE, value |-> v]
Err(e) == [ok |-> FALSE, error |-> e]

\* Mutant of build: max_batch_size is not validated.
build_unchecked_batch_size(a) ==
    IF a = None THEN Ok(AppConfigDefault)
    ELSE LET given == a[1] IN
         IF given.max_wait_time_ms = Some(0)
         THEN Err("max_wait_time_ms must be > 0")
         ELSE Ok([f \in ArgsFields |->
                    IF given[f] = None THEN AppConfigDefault[f]
                    ELSE IF f = "log_level" THEN LogLevelToString(given[f][1])
                    ELSE given[f][1]])

\* AppConfig::build: the defaults, overwritten by the options that are Some,
\* with an early return at the first of the two validated options that is 0.
build(a) ==
    IF a = None THEN Ok(AppConfigDefault)
    ELSE LET given == a[1] IN
         IF given.max_wait_time_ms = Some(0)
         THEN Err("max_wait_time_ms must be > 0")
         ELSE IF given.max_batch_size = Some(0)
         THEN Err("max_batch_size must be > 0")
         ELSE Ok([f \in ArgsFields |->
                    IF given[f] = None THEN AppConfigDefault[f]
                    ELSE IF f = "log_level" THEN LogLevelToString(given[f][1])
                    ELSE given[f][1]])

\* The process before main has called AppConfig::build: `config` is what
\* build starts from, nothing else exists yet.
InitConfig ==
    /\ args \in Option(ArgsValues)
    /\ config = AppConfigDefault
    /\ dispatcher = "not_started"
    /\ request = [id \in 1..MaxRequests |-> None]
    /\ tick_ready = FALSE
    /\ elapsed = [id \in Ids |-> 0]
    /\ gateway = [id \in Ids |-> [pc |-> "idle", left |-> 0, outcome |-> None]]
    /\ request_channel = <<>>
    /\ pending_requests = <<>>
    /\ BATCH_COUNTER = 1
    /\ batches = <<>>
    /\ response_channel = [id \in Ids |-> [receiver |-> "none", slot |-> None]]
    /\ sent = [id \in Ids |-> <<>>]

\* main: build returned Ok, build_rocket makes the RequestHandler, which
\* spawns the dispatcher with the configuration.
Launch ==
    /\ dispatcher = "not_started"
    /\ build(args).ok
    /\ config' = build(args).value
    /\ dispatcher' = "running"
    /\ UNCHANGED <<args, tick_ready, request, elapsed, gateway, request_channel,
                   pending_requests, BATCH_COUNTER, batches, response_channel, sent>>

\* main: build returned Err, the process prints it and exits with status 1.
ExitOnError ==
    /\ dispatcher = "not_started"
    /\ ~build(args).ok
    /\ dispatcher' = "exited"
    /\ UNCHANGED <<args, config, tick_ready, request, elapsed, gateway, request_channel,
                   pending_requests, BATCH_COUNTER, batches, response_channel, sent>>

NextConfig ==
    \/ Launch
    \/ ExitOnError

SpecConfig == InitConfig /\ [][NextConfig]_vars

\* ---- a burst of concurrent calls, as the tests of the repository make ----

\* The input count of every call of a burst: build_inputs(1) or build_inputs(10).
BurstInputCounts == {1, 10}

\* max_batch_size and the number of calls of the bursts.
Bursts == {<<2, 3>>, <<2, 5>>, <<3, 5>>, <<5, 7>>, <<4, 7>>, <<100, 3>>, <<100, 7>>}

InitBurst ==
    \E burst \in Bursts :
        /\ config = [max_batch_size |-> burst[1], max_inference_inputs |-> 32,
                     max_wait_time_ms |-> 1, include_batch_info |-> TRUE]
        /\ Started(burst[2])

\* One call of the burst: all calls of a burst have the same number of inputs.
BurstEmbed(n) ==
    /\ \A id \in Ids : request[id] /= None => NumInputs(id) = n
    /\ Embed(n, 0)

\* The calls of a burst are made, and taken by the dispatcher, within less
\* than one tick period: time passes once all of them are enqueued.
BurstAdvanceTime ==
    /\ Cardinality(Calls) = Cardinality(Ids)
    /\ request_channel = <<>>
    /\ AdvanceTime

\* The upstream of the tests answers with one embedding per input.
BurstUpstreamReturns(k) ==
    UpstreamReturns(k, [transport |-> TRUE, status |-> 200, parses |-> TRUE,
                        n |-> Len(prepare_request(batches[k].reqs))])

NextBurst ==
    \/ \E n \in BurstInputCounts : BurstEmbed(n)
    \/ \E id \in Ids : GatewayReply(id)
    \/ DispatcherRecv
    \/ DispatcherTick
    \/ BurstAdvanceTime
    \/ \E k \in 1..Len(batches) : BurstUpstreamReturns(k)

SpecBurst == InitBurst /\ [][NextBurst]_vars

\* ---- a dispatcher that keeps up with its ticks ----

\* A tick period passes once the dispatcher loop has taken the tick of the
\* period before and the requests submitted so far: its iterations are
\* synchronous and short, a tick period is longer than any of them.
PromptAdvanceTime ==
    /\ ~tick_ready
    /\ request_channel = <<>>
    /\ AdvanceTime

NextPrompt ==
    \/ \E n \in InputCounts, lag \in StampLags :
          n <= config.max_inference_inputs + 1 /\ Embed(n, lag)
    \/ \E id \in Ids : GatewayTimeout(id)
    \/ \E id \in Ids : GatewayReply(id)
    \/ DispatcherRecv
    \/ DispatcherTick
    \/ PromptAdvanceTime
    \/ \E k \in 1..Len(batches) :
          \E answer \in UpstreamAnswers(prepare_request(batches[k].reqs), UpstreamStatuses) :
             UpstreamReturns(k, answer)

SpecPrompt == InitLive /\ [][NextPrompt]_vars

\* ---- an upstream that hangs, and reqwest's timeout ----

\* inference_timeout_secs in the unit of REQUEST_SLACK (30 s): none, and 30 s.
InferenceTimeouts == {0, 1}

InitTimed ==
    /\ config \in [max_batch_size         : {1, 2},
                    max_inference_inputs   : {2},
                    max_wait_time_ms       : {1},
                    include_batch_info     : {FALSE},
                    inference_timeout_secs : InferenceTimeouts]
    /\ Started(MaxRequests)

\* Time passes for the handlers' timers, for the queued requests and for
\* the upstream calls in flight.  The dispatcher keeps up, as in
\* PromptAdvanceTime, and reqwest's timeout ends a call that has lasted
\* inference_timeout_secs before more time passes.
TimedAdvanceTime ==
    /\ ~tick_ready
    /\ request_channel = <<>>
    /\ \A k \in 1..Len(batches) :
          batches[k].state = "in_flight" =>
             batches[k].called_for < config.inference_timeout_secs
    /\ elapsed' = [id \in Ids |->
                     IF InChannelOrQueue(id)
                     THEN Older(elapsed[id], config.max_wait_time_ms)
                     ELSE elapsed[id]]
    /\ gateway' = [id \in Ids |->
                     IF gateway[id].pc = "waiting" /\ response_channel[id].slot = None
                     THEN [gateway[id] EXCEPT !.left = Less(@)]
                     ELSE gateway[id]]
    /\ batches' = [k \in 1..Len(batches) |->
                     IF batches[k].state = "in_flight"
                     THEN [batches[k] EXCEPT !.called_for = @ + 1]
                     ELSE batches[k]]
    /\ tick_ready' = TRUE
    /\ UNCHANGED <<args, config, dispatcher, request, request_channel, pending_requests,
                   BATCH_COUNTER, response_channel, sent>>

\* The call of task k has lasted inference_timeout_secs: send() fails with
\* a timeout error, which call_service maps to NetworkError.
UpstreamTimesOut(k) ==
    /\ batches[k].called_for >= config.inference_timeout_secs
    /\ UpstreamReturns(k, [transport |-> FALSE, status |-> 0, parses |-> FALSE, n |-> 0])

NextTimed ==
    \/ \E n \in InputCounts, lag \in StampLags :
          n <= config.max_inference_inputs + 1 /\ Embed(n, lag)
    \/ \E id \in Ids : GatewayTimeout(id)
    \/ \E id \in Ids : GatewayReply(id)
    \/ DispatcherRecv
    \/ DispatcherTick
    \/ TimedAdvanceTime
    \/ \E k \in 1..Len(batches) : BurstUpstreamReturns(k)
    \/ \E k \in 1..Len(batches) : UpstreamTimesOut(k)

SpecTimed == InitTimed /\ [][NextTimed]_vars

\* ---- longer queues, of requests the route has not validated ----

\* The number of calls, and the input counts of the calls: up to one more
\* than the larger max_inference_inputs.
QueueCalls == 3
QueueInputCounts == {1, 2, 3}

InitQueue ==
    /\ config \in [max_batch_size       : {1, 2, 3},
                    max_inference_inputs : {2, 3},
                    max_wait_time_ms     : {1},
                    include_batch_info   : {FALSE}]
    /\ Started(QueueCalls)

NextQueue ==
    \/ \E n \in QueueInputCounts : ProcessRequest(n, 0)
    \/ \E id \in Ids : GatewayReply(id)
    \/ DispatcherRecv
    \/ DispatcherTick
    \/ AdvanceTime
    \/ \E k \in 1..Len(batches) : BurstUpstreamReturns(k)

SpecQueue == InitQueue /\ [][NextQueue]_vars

\* ---- the mapping of upstream failures, over every status code ----

\* Every value of reqwest's StatusCode.
AllStatuses == 100..999

\* One call is still to come, every call before it was rejected for having
\* no inputs.
InitStatus ==
    /\ config = [max_batch_size |-> 1, max_inference_inputs |-> 1,
                 max_wait_time_ms |-> 1, include_batch_info |-> FALSE]
    /\ args = None
    /\ request = [id \in 1..MaxRequests |-> None]
    /\ tick_ready = FALSE
    /\ dispatcher = "running"
    /\ elapsed = [id \in Ids |-> 0]
    /\ gateway = [id \in Ids |->
                    IF id < MaxRequests
                    THEN [pc |-> "done", left |-> 0,
                          outcome |-> Some(ErrResponse(400, EmptyInputsMessage))]
                    ELSE [pc |-> "idle", left |-> 0, outcome |-> None]]
    /\ request_channel = <<>>
    /\ pending_requests = <<>>
    /\ BATCH_COUNTER = 1
    /\ batches = <<>>
    /\ response_channel = [id \in Ids |-> [receiver |-> "none", slot |-> None]]
    /\ sent = [id \in Ids |-> <<>>]

NextStatus ==
    \/ \E n \in InputCounts, lag \in StampLags :
          n <= config.max_inference_inputs + 1 /\ Embed(n, lag)
    \/ \E id \in Ids : GatewayTimeout(id)
    \/ \E id \in Ids : GatewayReply(id)
    \/ DispatcherRecv
    \/ DispatcherTick
    \/ AdvanceTime
    \/ \E k \in 1..Len(batches) :
          \E answer \in UpstreamAnswers(prepare_request(batches[k].reqs), AllStatuses) :
             UpstreamReturns(k, answer)

SpecStatus == InitStatus /\ [][NextStatus]_vars

\* ---- properties ----

RECURSIVE InputSum(_)
InputSum(batch) == IF batch = <<>> THEN 0 ELSE NumInputs(Head(batch)) + InputSum(Tail(batch))

Range(seq) == {seq[i] : i \in 1..Len(seq)}
BatchesOf(id) == {k \in 1..Len(batches) : id \in Range(batches[k].reqs)}
Positions(id) ==
    {<<k, i>> \in (1..Len(batches)) \X (1..Cardinality(Ids)) :
        i <= Len(batches[k].reqs) /\ batches[k].reqs[i] = id}

\* C1: every batch emitted, by either trigger, holds at least 1 and at most
\* max_batch_size requests, and the input counts of its requests sum to at
\* most max_inference_inputs.
BatchWithinCaps ==
    \A k \in 1..Len(batches) :
        /\ 1 <= Len(batches[k].reqs)
        /\ Len(batches[k].reqs) <= config.max_batch_size
        /\ InputSum(batches[k].reqs) <= config.max_inference_inputs

\* A batch of two requests that is full on both caps.
BatchWithinCapsWitness ==
    \E k \in 1..Len(batches) :
        /\ Len(batches[k].reqs) = 2
        /\ Len(batches[k].reqs) = config.max_batch_size
        /\ InputSum(batches[k].reqs) = config.max_inference_inputs

\* C2: the reply handle of a request is written at most once; a request that
\* was written to either holds exactly that response (in its reply slot, and
\* as the outcome of its gateway call once that has taken it) or its waiter
\* had abandoned before the delivery and it holds none.
AtMostOneResponse ==
    \A id \in Ids :
        /\ Len(sent[id]) <= 1
        /\ response_channel[id].slot /= None =>
              /\ sent[id] = response_channel[id].slot
              /\ response_channel[id].receiver \in {"waiting", "received"}
        /\ response_channel[id].receiver = "received" =>
              gateway[id].outcome = sent[id]
        /\ (Len(sent[id]) = 1 /\ response_channel[id].slot = None) =>
              /\ response_channel[id].receiver = "dropped"
              /\ gateway[id].outcome = Some(ErrResponse(408, TimedOutMessage))

\* One request has taken its response, another had given up before its
\* batch was delivered.
AtMostOneResponseWitness ==
    /\ \E id \in Ids : response_channel[id].receiver = "received" /\ Len(sent[id]) = 1
    /\ \E id \in Ids : response_channel[id].receiver = "dropped" /\ Len(sent[id]) = 1

\* C3: each batch is the prefix of the pending queue as it stood when the
\* batch was emitted, in the same order, and the queue after the emission is
\* the remaining suffix in unchanged order.
BatchIsQueuePrefix ==
    \A k \in 1..Len(batches) :
        LET b == batches[k] IN
        /\ Len(b.reqs) <= Len(b.queue_before)
        /\ b.reqs = SubSeq(b.queue_before, 1, Len(b.reqs))
        /\ b.queue_after = SubSeq(b.queue_before, Len(b.reqs) + 1, Len(b.queue_before))

\* A batch that is a proper prefix: emitted from a queue of two requests,
\* one of which stayed queued.
BatchIsQueuePrefixWitness ==
    \E k \in 1..Len(batches) :
        /\ Len(batches[k].queue_before) = 2
        /\ Len(batches[k].reqs) = 1
        /\ batches[k].queue_after = <<batches[k].queue_before[2]>>

\* C4: emission is FIFO across batches.  The dispatcher enqueues requests in
\* the order of their ids (ids are given in the order of the sends on the
\* FIFO submission channel): a request enqueued before another is in the
\* same batch or in an earlier one, and is in a batch whenever the later one is.
EmissionIsFifo ==
    \A a, b \in Ids :
        (a < b /\ request[a] /= None /\ BatchesOf(b) /= {}) =>
            /\ BatchesOf(a) /= {}
            /\ \A ka \in BatchesOf(a), kb \in BatchesOf(b) : ka <= kb

\* Two requests emitted in two batches, the later batch already delivered
\* while the earlier one is still in flight.
EmissionIsFifoWitness ==
    /\ Len(batches) = 2
    /\ batches[1].reqs = <<1>>
    /\ batches[2].reqs = <<2>>
    /\ batches[1].state = "in_flight"
    /\ batches[2].state = "done"
    /\ sent[2] /= <<>>

\* C5: a request moves forward only.  Once in a batch it is in exactly one
\* place of exactly one batch and neither in the pending queue nor in the
\* submission channel; it is written to only by a batch it is in, after that
\* batch's upstream call has returned.
NeverRequeued ==
    \A id \in Ids :
        /\ Cardinality(Positions(id)) <= 1
        /\ BatchesOf(id) /= {} => ~InChannelOrQueue(id)
        /\ sent[id] /= <<>> =>
              \E k \in BatchesOf(id) : batches[k].state = "done"

\* A request that went all the way: out of the queue, through a batch whose
\* call has returned, to a delivered response, while another is still queued.
NeverRequeuedWitness ==
    /\ \E id \in Ids :
          /\ \E k \in BatchesOf(id) : batches[k].state = "done"
          /\ gateway[id].pc = "done"
          /\ response_channel[id].receiver = "received"
    /\ pending_requests /= <<>>

\* The offset of the i-th request of a batch in the flat request: the sum of
\* the input counts of the requests before it.
Offset(batch, i) == InputSum(SubSeq(batch, 1, i - 1))

Done(k) == batches[k].state = "done"
Result(k) == batches[k].result[1]
Answered(k) == Done(k) /\ Result(k).ok
Failed(k) == Done(k) /\ ~Result(k).ok

\* C6: when the upstream returns one embedding per flat input, every request
\* of the batch is sent the embeddings of its own inputs, in the order of
\* its inputs: the slice of the answer at its offset, of its length.
ExactAnswerIsDemultiplexed ==
    \A k \in 1..Len(batches) :
        (Answered(k) /\ Len(Result(k).embeddings) = InputSum(batches[k].reqs)) =>
            \A i \in 1..Len(batches[k].reqs) :
                LET id == batches[k].reqs[i]
                    offset == Offset(batches[k].reqs, i)
                IN  /\ Len(sent[id]) = 1
                    /\ sent[id][1].ok
                    /\ sent[id][1].embeddings =
                          [j \in 1..NumInputs(id) |-> embedding_of(request[id][1].inputs[j])]
                    /\ sent[id][1].embeddings =
                          SubSeq(Result(k).embeddings, offset + 1, offset + NumInputs(id))

\* A batch of two requests answered with one embedding per input; the gateway
\* call of the second request has returned its embeddings.
ExactAnswerIsDemultiplexedWitness ==
    \E k \in 1..Len(batches) :
        /\ Answered(k)
        /\ Len(batches[k].reqs) = 2
        /\ Len(Result(k).embeddings) = InputSum(batches[k].reqs)
        /\ gateway[batches[k].reqs[2]].outcome = sent[batches[k].reqs[2]]
        /\ Len(sent[batches[k].reqs[2]]) = 1

\* C7 as stated: every success response sent to a request holds exactly as
\* many embeddings as the request had inputs.
SuccessHasOneEmbeddingPerInput ==
    \A id \in Ids :
        \A i \in 1..Len(sent[id]) :
            sent[id][i].ok => Len(sent[id][i].embeddings) = NumInputs(id)

\* C7 as amended: every success response sent to a request holds exactly as
\* many embeddings as the request had inputs, or none; it holds exactly as
\* many whenever the upstream returned at least one embedding per flat input
\* of the batch.
SuccessHasOneEmbeddingPerInputOrNone ==
    \A k \in 1..Len(batches) :
        Answered(k) =>
            \A i \in 1..Len(batches[k].reqs) :
                LET id == batches[k].reqs[i] IN
                /\ Len(sent[id]) = 1
                /\ sent[id][1].ok
                /\ sent[id][1].status = 200
                /\ Len(sent[id][1].embeddings) \in {0, NumInputs(id)}
                /\ Len(Result(k).embeddings) >= InputSum(batches[k].reqs) =>
                      Len(sent[id][1].embeddings) = NumInputs(id)

\* A request of two inputs whose gateway call returned 200 with two
\* embeddings although the upstream had answered with three.
SuccessHasOneEmbeddingPerInputOrNoneWitness ==
    \E k \in 1..Len(batches) :
        /\ Answered(k)
        /\ Len(Result(k).embeddings) = InputSum(batches[k].reqs) + 1
        /\ \E id \in Range(batches[k].reqs) :
              /\ NumInputs(id) = 2
              /\ gateway[id].outcome = sent[id]
              /\ Len(sent[id]) = 1
              /\ Len(sent[id][1].embeddings) = 2

FailureReachesWholeBatch ==
    \A k \in 1..Len(batches) :
        \A i \in 1..Len(batches[k].reqs) :
            LET id == batches[k].reqs[i]
                first == batches[k].reqs[1]
            IN  /\ Failed(k) =>
                      /\ Len(sent[id]) = 1
                      /\ ~sent[id][1].ok
                      /\ sent[id][1].status >= 400
                      /\ sent[id][1].error = message(Result(k).error)
                      /\ sent[id] = sent[first]
                /\ Answered(k) => (Len(sent[id]) = 1 /\ sent[id][1].ok)
                /\ ~Done(k) => sent[id] = <<>>

\* A batch of two requests has failed, and the gateway calls of both have
\* returned the error.
FailureReachesWholeBatchWitness ==
    \E k \in 1..Len(batches) :
        /\ Failed(k)
        /\ Len(batches[k].reqs) = 2
        /\ \A id \in Range(batches[k].reqs) :
              /\ gateway[id].pc = "done"
              /\ gateway[id].outcome = sent[id]
              /\ Len(sent[id]) = 1
              /\ ~sent[id][1].ok

\* The status the client is to see for an upstream failure.
ClientStatus(error) ==
    IF error.kind = "NetworkError" THEN 503
    ELSE IF error.kind = "ParseError" THEN 500
    ELSE IF error.status \in 400..499 THEN 400
    ELSE IF error.status \in 500..599 THEN 503
    ELSE 500

\* C10: the status sent to the requests of a failed batch is a function of
\* the upstream failure alone: NetworkError 503, HttpError 4xx 400,
\* HttpError 5xx 503, HttpError with any other status 500, ParseError 500.
FailureStatusMapping ==
    \A k \in 1..Len(batches) :
        Failed(k) =>
            /\ Result(k).error.kind \in {"NetworkError", "HttpError", "ParseError"}
            /\ \A id \in Range(batches[k].reqs) :
                  /\ sent[id] /= <<>>
                  /\ sent[id][1].status = ClientStatus(Result(k).error)

\* The upstream answered 600, and the gateway call returned 500.
FailureStatusMappingWitness ==
    \E k \in 1..Len(batches) :
        /\ Failed(k)
        /\ Result(k).error = HttpError(600)
        /\ \E id \in Range(batches[k].reqs) :
              /\ gateway[id].pc = "done"
              /\ gateway[id].outcome = sent[id]
              /\ Len(sent[id]) = 1
              /\ sent[id][1].status = 500

\* Batches j..k were spawned by one call of process_pending_requests: each
\* was built from the queue the one before it left, under the same trigger.
SameCall(j, k) ==
    \A i \in j..(k - 1) :
        /\ batches[i].queue_after = batches[i + 1].queue_before
        /\ batches[i].batch_type = batches[i + 1].batch_type
        /\ batches[i].woken_by = batches[i + 1].woken_by

\* C11: the size trigger is evaluated on arrival only.  A batch tagged
\* max_batch_size was emitted in an iteration woken by an arrival, by a call
\* that found at least max_batch_size requests in the queue after the
\* enqueue; a batch emitted in an iteration woken by a tick is never tagged
\* max_batch_size.  The tag in the BatchInfo is the trigger of the call.
SizeTriggerOnlyOnArrival ==
    \A k \in 1..Len(batches) :
        LET b == batches[k] IN
        /\ b.batch_info /= None => b.batch_info[1].batch_type = b.batch_type
        /\ b.woken_by = "tick" => b.batch_type = MaxWaitTimeMs
        /\ b.batch_type = MaxBatchSize =>
              /\ b.woken_by = "arrival"
              /\ \E j \in 1..k :
                    /\ SameCall(j, k)
                    /\ Len(batches[j].queue_before) >= config.max_batch_size

\* A size-triggered drain of a queue of two requests that took two batches,
\* the second of them delivered with its max_batch_size tag.
SizeTriggerOnlyOnArrivalWitness ==
    /\ Len(batches) = 2
    /\ SameCall(1, 2)
    /\ batches[1].batch_type = MaxBatchSize
    /\ Len(batches[1].queue_before) = 2
    /\ Len(sent[2]) = 1
    /\ sent[2][1].batch_info /= None
    /\ sent[2][1].batch_info[1].batch_type = MaxBatchSize

\* The step is one iteration of the dispatcher loop, by its recv() branch or
\* by its tick() branch.
RecvIteration == request_channel /= <<>> /\ request_channel' = Tail(request_channel)
TickIteration == tick_ready /\ ~tick_ready'

\* The batches spawned by the step.
NewBatches == SubSeq(batches', Len(batches) + 1, Len(batches'))

\* The queue as the age check of the iteration finds it: after an arrival
\* that did not reach max_batch_size the queue with the new request, after
\* one that did the queue the size-triggered drain left (empty, for requests
\* the gateway admitted), after a tick the queue as it was.
QueueAtAgeCheck ==
    IF RecvIteration
    THEN LET queue == Append(pending_requests, Head(request_channel))
         IN  IF Len(queue) >= config.max_batch_size THEN <<>> ELSE queue
    ELSE pending_requests

HeadIsDue ==
    /\ QueueAtAgeCheck /= <<>>
    /\ elapsed[Head(QueueAtAgeCheck)] >= config.max_wait_time_ms

\* C12: the age trigger is evaluated after every iteration of the dispatcher
\* loop, arrival or tick, and fires exactly when the queue is not empty and
\* its head has waited at least max_wait_time_ms: then the iteration emits
\* batches tagged max_wait_time_ms, starting from that queue; otherwise it
\* emits no batch tagged max_wait_time_ms.
AgeTriggerIsExact ==
    [][(RecvIteration \/ TickIteration) =>
         /\ HeadIsDue <=>
               \E i \in 1..Len(NewBatches) : NewBatches[i].batch_type = MaxWaitTimeMs
         /\ HeadIsDue =>
               /\ NewBatches /= <<>>
               /\ NewBatches[1].queue_before = QueueAtAgeCheck
               /\ \A i \in 1..Len(NewBatches) : NewBatches[i].batch_type = MaxWaitTimeMs]_vars

\* The age trigger has fired in an iteration woken by a tick and in one
\* woken by an arrival.
AgeTriggerIsExactWitness ==
    /\ \E k \in 1..Len(batches) :
          batches[k].batch_type = MaxWaitTimeMs /\ batches[k].woken_by = "tick"
    /\ \E k \in 1..Len(batches) :
          batches[k].batch_type = MaxWaitTimeMs /\ batches[k].woken_by = "arrival"

\* C13: with ticks that keep occurring, a request in the pending queue is
\* eventually in a batch, whether or not another request ever arrives; and a
\* tick iteration that finds the head of the queue past its deadline drains
\* the queue, every request that was queued being in a batch after it.
StragglerIsDrained ==
    /\ \A id \in 1..MaxRequests :
          (id \in Range(pending_requests)) ~> (BatchesOf(id) /= {})
    /\ [][(/\ TickIteration
            /\ pending_requests /= <<>>
            /\ elapsed[Head(pending_requests)] >= config.max_wait_time_ms) =>
             /\ pending_requests' = <<>>
             /\ \A id \in Range(pending_requests) :
                   \E i \in 1..Len(NewBatches) : id \in Range(NewBatches[i].reqs)]_vars

\* A single request, too few to fill a batch, was drained by a tick; no
\* other request has been submitted.
StragglerIsDrainedWitness ==
    /\ config.max_batch_size > 1
    /\ Len(batches) = 1
    /\ batches[1].reqs = <<1>>
    /\ batches[1].woken_by = "tick"
    /\ batches[1].batch_type = MaxWaitTimeMs
    /\ gateway[2].pc = "idle"

\* The queue of the iteration once the arrival, if any, is enqueued.
QueueAfterEnqueue ==
    IF RecvIteration
    THEN Append(pending_requests, Head(request_channel))
    ELSE pending_requests

\* The iteration calls process_pending_requests: for the size trigger, or
\* for the age trigger.
SizeTriggerHolds == RecvIteration /\ Len(QueueAfterEnqueue) >= config.max_batch_size
AgeTriggerHolds ==
    /\ QueueAfterEnqueue /= <<>>
    /\ elapsed[Head(QueueAfterEnqueue)] >= config.max_wait_time_ms

HeadIsOversized(queue) ==
    queue /= <<>> /\ NumInputs(Head(queue)) > config.max_inference_inputs

\* C14: one call of process_pending_requests ends, having drained what can
\* be drained.  The batches an iteration emits follow one another, each
\* built from the queue the one before left and each taking at least one
\* request, all under the trigger of the call; the queue the call returns is
\* what the last batch left, and it is empty or has a head that alone
\* exceeds max_inference_inputs.  An iteration in which no trigger holds
\* emits nothing.
DrainIsMaximal ==
    [][(RecvIteration \/ TickIteration) =>
         /\ (SizeTriggerHolds \/ AgeTriggerHolds) =>
               (pending_requests' = <<>> \/ HeadIsOversized(pending_requests'))
         /\ ~(SizeTriggerHolds \/ AgeTriggerHolds) =>
               (NewBatches = <<>> /\ pending_requests' = QueueAfterEnqueue)
         /\ NewBatches /= <<>> =>
               /\ NewBatches[1].queue_before = QueueAfterEnqueue
               /\ NewBatches[Len(NewBatches)].queue_after = pending_requests'
               /\ NewBatches[1].batch_type =
                     (IF SizeTriggerHolds THEN MaxBatchSize ELSE MaxWaitTimeMs)
               /\ \A i \in 1..Len(NewBatches) :
                     /\ Len(NewBatches[i].reqs) >= 1
                     /\ Len(NewBatches[i].queue_after) < Len(NewBatches[i].queue_before)
                     /\ NewBatches[i].batch_type = NewBatches[1].batch_type
               /\ \A i \in 1..(Len(NewBatches) - 1) :
                     NewBatches[i].queue_after = NewBatches[i + 1].queue_before]_vars

\* A drain stopped at a request that alone exceeds the cap: the request in
\* front of it was emitted, the oversized one is the queue.
DrainIsMaximalWitness ==
    /\ Len(batches) = 1
    /\ batches[1].reqs = <<1>>
    /\ batches[1].queue_before = <<1, 2>>
    /\ pending_requests = <<2>>
    /\ HeadIsOversized(pending_requests)

\* C16: when the head of the queue alone has more inputs than
\* max_inference_inputs, build_safe_batch gives an empty batch and leaves
\* the queue as it is, and the iteration of the dispatcher ends with no batch
\* emitted, no batch id taken and the queue unchanged, the head included.
OversizedHeadStopsDrain ==
    [][((RecvIteration \/ TickIteration) /\ HeadIsOversized(QueueAfterEnqueue)) =>
         /\ build_safe_batch(QueueAfterEnqueue).batch = <<>>
         /\ build_safe_batch(QueueAfterEnqueue).rest = QueueAfterEnqueue
         /\ batches' = batches
         /\ BATCH_COUNTER' = BATCH_COUNTER
         /\ pending_requests' = QueueAfterEnqueue]_vars

\* An oversized request heads a queue of two; its deadline has passed and
\* the tick after it has been taken; nothing was emitted.
OversizedHeadStopsDrainWitness ==
    /\ pending_requests = <<1, 2>>
    /\ HeadIsOversized(pending_requests)
    /\ ~HeadIsOversized(Tail(pending_requests))
    /\ elapsed[1] >= config.max_wait_time_ms
    /\ ~tick_ready
    /\ batches = <<>>
    /\ BATCH_COUNTER = 1

ValidationResponses ==
    {ErrResponse(400, EmptyInputsMessage), ErrResponse(400, TooManyInputsMessage)}

\* C17: a gateway call ends with exactly one outcome, which it keeps.  A
\* call that passes the validations of the route ends at once with 500
\* "Failed to queue request" exactly when the submission channel is closed;
\* a call that waits ends with the value sent to it, unchanged, if one was
\* sent; else with 500 "Response channel closed" if its sender was dropped;
\* else with 408 "Request timed out", and then its timeout has run out.
GatewayOutcomes ==
    /\ [](\A id \in Ids :
            /\ Len(gateway[id].outcome) <= 1
            /\ (gateway[id].pc = "done") <=> (gateway[id].outcome /= None))
    /\ [][\A id \in Ids :
            /\ gateway[id].pc = "done" => gateway'[id] = gateway[id]
            /\ (gateway[id].pc = "idle" /\ gateway'[id].pc = "waiting") =>
                  dispatcher = "running"
            /\ (gateway[id].pc = "idle" /\ gateway'[id].pc = "done") =>
                  \/ gateway'[id].outcome[1] \in ValidationResponses
                  \/ /\ dispatcher = "gone"
                     /\ gateway'[id].outcome[1] = ErrResponse(500, FailedToQueueMessage)
            /\ (gateway[id].pc = "waiting" /\ gateway'[id].pc = "done") =>
                  IF sent[id] /= <<>>
                  THEN gateway'[id].outcome[1] = sent[id][1]
                  ELSE IF dispatcher = "gone" /\ BatchesOf(id) = {}
                  THEN gateway'[id].outcome[1] = ErrResponse(500, ChannelClosedMessage)
                  ELSE /\ gateway'[id].outcome[1] = ErrResponse(408, TimedOutMessage)
                       /\ gateway[id].left = 0]_vars

\* One call ended with "Response channel closed", the next with "Failed to
\* queue request".
GatewayOutcomesWitness ==
    /\ gateway[1].outcome = Some(ErrResponse(500, ChannelClosedMessage))
    /\ gateway[2].outcome = Some(ErrResponse(500, FailedToQueueMessage))

\* The upstream call of batch k returns, with some answer.
Returns(k) ==
    \E answer \in UpstreamAnswers(prepare_request(batches[k].reqs), UpstreamStatuses) :
        UpstreamReturns(k, answer)

\* C15: the dispatcher never waits for an upstream call.  Whatever batches
\* are in flight, it can take the next request from the channel and can take
\* a tick; and the call of any batch in flight can return, whatever the
\* state of the batches emitted before it.
DispatcherNeverWaits ==
    /\ request_channel /= <<>> => ENABLED DispatcherRecv
    /\ tick_ready => ENABLED DispatcherTick
    /\ \A k \in 1..Len(batches) : batches[k].state = "in_flight" => ENABLED Returns(k)

\* Two batches were emitted; the gateway call of the second has returned
\* its response while the first batch is in flight and its call waits.
DispatcherNeverWaitsWitness ==
    /\ Len(batches) = 2
    /\ batches[1].state = "in_flight"
    /\ batches[2].state = "done"
    /\ gateway[batches[1].reqs[1]].pc = "waiting"
    /\ gateway[batches[2].reqs[1]].pc = "done"
    /\ gateway[batches[2].reqs[1]].outcome = sent[batches[2].reqs[1]]
    /\ sent[batches[2].reqs[1]] /= <<>>

\* The waiter of request id gave up: its receiver was dropped at the timeout.
GaveUp(id) == response_channel[id].receiver = "dropped"

\* The embeddings of the inputs of request id.
OwnEmbeddings(id) == [j \in 1..NumInputs(id) |-> embedding_of(request[id][1].inputs[j])]

\* C18: a request whose waiter gave up before delivery stays with the
\* dispatcher and is batched like any other; its inputs are part of what the
\* upstream is asked (the answer holds their embeddings at its offset); the
\* delivery to it is attempted and changes nothing, its call keeps the 408;
\* and every other request of its batch is sent its own response, which
\* lands in its reply slot or has been returned by its call.
AbandonedWaiterIsHarmless ==
    \A id \in Ids :
        GaveUp(id) =>
            /\ gateway[id].outcome = Some(ErrResponse(408, TimedOutMessage))
            /\ response_channel[id].slot = None
            /\ InChannelOrQueue(id) \/ BatchesOf(id) /= {}
            /\ \A k \in BatchesOf(id) :
                  \A i \in 1..Len(batches[k].reqs) :
                      LET other == batches[k].reqs[i]
                          offset == Offset(batches[k].reqs, i)
                          exact == Len(Result(k).embeddings) = InputSum(batches[k].reqs)
                      IN  /\ Done(k) => Len(sent[other]) = 1
                          /\ (Answered(k) /\ exact) =>
                                /\ SubSeq(Result(k).embeddings, offset + 1,
                                          offset + NumInputs(other)) = OwnEmbeddings(other)
                                /\ sent[other][1].ok
                                /\ sent[other][1].embeddings = OwnEmbeddings(other)
                          /\ Failed(k) =>
                                /\ ~sent[other][1].ok
                                /\ sent[other][1].error = message(Result(k).error)
                          /\ (Done(k) /\ ~GaveUp(other)) =>
                                \/ response_channel[other].slot = sent[other]
                                \/ gateway[other].outcome = sent[other]

\* A batch of two requests was answered; the waiter of the first had given
\* up before, the call of the second has returned its own embeddings.
AbandonedWaiterIsHarmlessWitness ==
    \E k \in 1..Len(batches) :
        /\ Answered(k)
        /\ Len(batches[k].reqs) = 2
        /\ Len(Result(k).embeddings) = InputSum(batches[k].reqs)
        /\ GaveUp(batches[k].reqs[1])
        /\ Len(sent[batches[k].reqs[1]]) = 1
        /\ gateway[batches[k].reqs[2]].outcome = sent[batches[k].reqs[2]]
        /\ Len(sent[batches[k].reqs[2]]) = 1
        /\ sent[batches[k].reqs[2]][1].embeddings = OwnEmbeddings(batches[k].reqs[2])

\* C19: in every BatchInfo attached to a response, batch_wait_time_ms is
\* absent when batch_type is max_batch_size, and present and equal to the
\* configured max_wait_time_ms when batch_type is max_wait_time_ms.
WaitTimeFollowsBatchType ==
    \A id \in Ids :
        \A i \in 1..Len(sent[id]) :
            sent[id][i].batch_info /= None =>
                LET info == sent[id][i].batch_info[1] IN
                /\ info.batch_type \in {MaxBatchSize, MaxWaitTimeMs}
                /\ info.batch_type = MaxBatchSize => info.batch_wait_time_ms = None
                /\ info.batch_type = MaxWaitTimeMs =>
                      info.batch_wait_time_ms = Some(config.max_wait_time_ms)

\* A call has returned a response whose BatchInfo is tagged max_wait_time_ms
\* and carries the configured wait time.
WaitTimeFollowsBatchTypeWitness ==
    \E id \in Ids :
        /\ gateway[id].outcome = sent[id]
        /\ Len(sent[id]) = 1
        /\ sent[id][1].batch_info /= None
        /\ sent[id][1].batch_info[1].batch_type = MaxWaitTimeMs
        /\ sent[id][1].batch_info[1].batch_wait_time_ms = Some(config.max_wait_time_ms)

\* C20: batch ids are unique and increase in emission order.  With
\* include_batch_info every batch carries a BatchInfo; of two batches that
\* carry one, the one emitted later has the larger batch_id, and the
\* counter is above every id handed out.  The responses of a batch carry the
\* id of their batch.
BatchIdsIncrease ==
    /\ \A k \in 1..Len(batches) :
          /\ config.include_batch_info <=> batches[k].batch_info /= None
          /\ batches[k].batch_info /= None =>
                /\ batches[k].batch_info[1].batch_id < BATCH_COUNTER
                /\ \A j \in 1..(k - 1) :
                      batches[j].batch_info /= None =>
                         batches[j].batch_info[1].batch_id < batches[k].batch_info[1].batch_id
                /\ \A id \in Range(batches[k].reqs) :
                      \A i \in 1..Len(sent[id]) :
                          sent[id][i].batch_info /= None =>
                             sent[id][i].batch_info[1].batch_id =
                                batches[k].batch_info[1].batch_id

\* Two batches were emitted and delivered: the client of the first was given
\* batch_id 1, the client of the second batch_id 2.
BatchIdsIncreaseWitness ==
    /\ Len(batches) = 2
    /\ \A k \in 1..2 :
          LET id == batches[k].reqs[1] IN
          /\ gateway[id].outcome = sent[id]
          /\ Len(sent[id]) = 1
          /\ sent[id][1].batch_info /= None
          /\ sent[id][1].batch_info[1].batch_id = k

\* C21 as stated: the counter starts at 1 and is one more than the number
\* of batches emitted, whatever the configuration.
CounterCountsBatches == BATCH_COUNTER = Len(batches) + 1

\* C21 as amended: the counter starts at 1 and is incremented by one for
\* every emitted batch that is given a BatchInfo.  With include_batch_info
\* its value after n batches is n + 1 and the n batches carry the ids 1..n;
\* without it no batch is given a BatchInfo and the counter stays at 1.
CounterCountsInfoBatches ==
    /\ config.include_batch_info =>
          /\ BATCH_COUNTER = Len(batches) + 1
          /\ \A k \in 1..Len(batches) :
                batches[k].batch_info /= None /\ batches[k].batch_info[1].batch_id = k
    /\ ~config.include_batch_info =>
          /\ BATCH_COUNTER = 1
          /\ \A k \in 1..Len(batches) : batches[k].batch_info = None

\* Two batches with BatchInfo were emitted and the counter stands at 3.
CounterCountsInfoBatchesWitness ==
    /\ config.include_batch_info
    /\ Len(batches) = 2
    /\ BATCH_COUNTER = 3

\* The success responses that carry batch_id b.
CarriersOf(b) ==
    {id \in Ids : /\ sent[id] /= <<>>
                  /\ sent[id][1].batch_info /= None
                  /\ sent[id][1].batch_info[1].batch_id = b}

\* C22: with include_batch_info, every success response of a batch carries
\* a BatchInfo with the batch_id and batch_type of its batch and with
\* batch_size equal to the number of requests in the batch; the responses
\* that carry a given batch_id are requests of that batch, so they are
\* never more than that batch_size.  Error responses carry no BatchInfo.
BatchInfoIsPerBatch ==
    \A k \in 1..Len(batches) :
        (config.include_batch_info /\ Done(k)) =>
            /\ \A id \in Range(batches[k].reqs) :
                  /\ Len(sent[id]) = 1
                  /\ sent[id][1].ok <=> sent[id][1].batch_info /= None
                  /\ sent[id][1].ok =>
                        LET info == sent[id][1].batch_info[1] IN
                        /\ info.batch_id = batches[k].batch_info[1].batch_id
                        /\ info.batch_type = batches[k].batch_type
                        /\ info.batch_size = Some(Len(batches[k].reqs))
            /\ CarriersOf(batches[k].batch_info[1].batch_id) \subseteq Range(batches[k].reqs)
            /\ Cardinality(CarriersOf(batches[k].batch_info[1].batch_id))
                  <= Len(batches[k].reqs)

\* The calls of both requests of a batch of two have returned responses with
\* the same batch_id and batch_size 2.
BatchInfoIsPerBatchWitness ==
    \E k \in 1..Len(batches) :
        /\ Answered(k)
        /\ Len(batches[k].reqs) = 2
        /\ Cardinality(CarriersOf(batches[k].batch_info[1].batch_id)) = 2
        /\ \A id \in Range(batches[k].reqs) :
              /\ gateway[id].outcome = sent[id]
              /\ sent[id][1].batch_info[1].batch_size = Some(2)

\* C23 as stated: a call with max_inference_inputs inputs is accepted and
\* submitted, a call with more is rejected with status 413.
TooManyInputsIs413 ==
    \A id \in Ids :
        /\ request[id] /= None => NumInputs(id) <= config.max_inference_inputs
        /\ (gateway[id].outcome /= None /\ gateway[id].outcome[1].error = TooManyInputsMessage) =>
              gateway[id].outcome[1].status = 413

\* The requests the dispatcher holds or has held.
Submitted(id) == InChannelOrQueue(id) \/ BatchesOf(id) /= {}

\* C24: a call rejected by the validations of the route is never submitted:
\* it builds no PendingRequest and is in neither channel, queue nor batch.
\* Every request in the channel, in the pending queue or in a batch has
\* between 1 and max_inference_inputs inputs.
RejectedNeverSubmitted ==
    \A id \in Ids :
        /\ (gateway[id].outcome /= None /\ gateway[id].outcome[1] \in ValidationResponses) =>
              /\ request[id] = None
              /\ ~Submitted(id)
              /\ response_channel[id].receiver = "none"
        /\ Submitted(id) =>
              /\ request[id] /= None
              /\ 1 <= NumInputs(id)
              /\ NumInputs(id) <= config.max_inference_inputs

\* The first call was rejected for too many inputs; the second, with as
\* many inputs as the cap allows, is in the pending queue.
RejectedNeverSubmittedWitness ==
    /\ gateway[1].outcome = Some(ErrResponse(400, TooManyInputsMessage))
    /\ pending_requests = <<2>>
    /\ NumInputs(2) = config.max_inference_inputs

\* C25: with max_batch_size = 1 every arrival reaches the size trigger, so
\* every request the dispatcher has taken is emitted at once, in a batch of
\* its own tagged max_batch_size: every batch holds exactly one request and
\* the pending queue is empty after every iteration.
SingletonBatches ==
    config.max_batch_size = 1 =>
        /\ pending_requests = <<>>
        /\ \A k \in 1..Len(batches) :
              Len(batches[k].reqs) = 1 /\ batches[k].batch_type = MaxBatchSize
        /\ \A id \in Ids :
              (request[id] /= None /\ id \notin Range(request_channel)) =>
                 BatchesOf(id) /= {}

\* With max_batch_size = 1, two one-input requests that the input cap would
\* have let into one batch were emitted in two.
SingletonBatchesWitness ==
    /\ config.max_batch_size = 1
    /\ config.max_inference_inputs = 2
    /\ Len(batches) = 2
    /\ NumInputs(1) = 1
    /\ NumInputs(2) = 1

\* ---- bursts ----

\* The number of calls of the burst.
BurstSize == Cardinality(Ids)

\* Every call made so far has n inputs.
BurstOf(n) == \A id \in Ids : request[id] /= None => NumInputs(id) = n

\* Every call of the burst is made and every request of it is in a batch.
BurstBatched ==
    /\ Cardinality(Calls) = BurstSize
    /\ request_channel = <<>>
    /\ pending_requests = <<>>

\* The sizes and tags of the batches emitted so far, in emission order.
BatchShapes == [k \in 1..Len(batches) |-> <<Len(batches[k].reqs), batches[k].batch_type>>]

\* s is an initial part of t.
IsPrefix(s, t) == Len(s) <= Len(t) /\ \A i \in 1..Len(s) : s[i] = t[i]

\* C26: a burst of k * B + r single-input requests (0 < r < B <=
\* max_inference_inputs) that all arrive before any age deadline is emitted
\* as k batches of B requests tagged max_batch_size, then one batch of r
\* requests tagged max_wait_time_ms, and nothing else.
SizeTriggerDominates ==
    LET B == config.max_batch_size
        k == BurstSize \div B
        r == BurstSize % B
    IN  (r > 0 /\ B <= config.max_inference_inputs /\ BurstOf(1)) =>
          /\ Len(batches) <= k + 1
          /\ \A j \in 1..Len(batches) :
                IF j <= k
                THEN BatchShapes[j] = <<B, MaxBatchSize>>
                ELSE BatchShapes[j] = <<r, MaxWaitTimeMs>>
          /\ BurstBatched => Len(batches) = k + 1

\* Seven single-input requests with max_batch_size = 5: five by size, then
\* two by age.
SizeTriggerDominatesWitness ==
    /\ BurstOf(1)
    /\ BurstBatched
    /\ config.max_batch_size = 5
    /\ BurstSize = 7
    /\ BatchShapes = <<<<5, MaxBatchSize>>, <<2, MaxWaitTimeMs>>>>

\* C27: with max_batch_size = 4 and max_inference_inputs = 32, a burst of
\* seven requests of 10 inputs is emitted as batches of 3, 1 and 3 requests:
\* the first two by the size trigger, in one iteration, the third by the age
\* trigger.
CapSplitsSizeDrain ==
    (/\ config.max_batch_size = 4
     /\ config.max_inference_inputs = 32
     /\ BurstSize = 7
     /\ BurstOf(10)) =>
       /\ IsPrefix(BatchShapes,
                   <<<<3, MaxBatchSize>>, <<1, MaxBatchSize>>, <<3, MaxWaitTimeMs>>>>)
       /\ Len(batches) /= 1
       /\ Len(batches) >= 2 => SameCall(1, 2)
       /\ BurstBatched => Len(batches) = 3

\* The seven requests of 10 inputs are all batched, as 3, 1 and 3.
CapSplitsSizeDrainWitness ==
    /\ config.max_batch_size = 4
    /\ BurstSize = 7
    /\ BurstOf(10)
    /\ BurstBatched
    /\ BatchShapes = <<<<3, MaxBatchSize>>, <<1, MaxBatchSize>>, <<3, MaxWaitTimeMs>>>>

\* The batch sizes of one drain of m requests of n inputs each, when the
\* request count cap is not reached: as many as fit under the input cap, until
\* none is left.
RECURSIVE Chunks(_, _)
Chunks(m, per) == IF m = 0 THEN <<>> ELSE
                  IF m <= per THEN <<m>> ELSE <<per>> \o Chunks(m - per, per)

\* C28: with max_batch_size = 100 and max_inference_inputs = 32 no batch is
\* emitted by the size trigger: a burst of three one-input requests is
\* emitted as one batch of 3, a burst of seven requests of 10 inputs as
\* batches of 3, 3 and 1, all tagged max_wait_time_ms and emitted by one
\* age-triggered drain.
TimeTriggerAlone ==
    (config.max_batch_size = 100 /\ config.max_inference_inputs = 32) =>
       /\ \A k \in 1..Len(batches) : batches[k].batch_type = MaxWaitTimeMs
       /\ batches /= <<>> => BurstBatched
       /\ (BurstBatched /\ BurstSize = 3 /\ BurstOf(1)) =>
              BatchShapes = <<<<3, MaxWaitTimeMs>>>>
       /\ (BurstBatched /\ BurstSize = 7 /\ BurstOf(10)) =>
              BatchShapes = <<<<3, MaxWaitTimeMs>>, <<3, MaxWaitTimeMs>>, <<1, MaxWaitTimeMs>>>>
       /\ \A n \in BurstInputCounts :
              (BurstBatched /\ BurstOf(n)) =>
                 [k \in 1..Len(batches) |-> Len(batches[k].reqs)]
                    = Chunks(BurstSize, config.max_inference_inputs \div n)

\* Both bursts of the claim are possible; this is the one of seven requests.
TimeTriggerAloneWitness ==
    /\ config.max_batch_size = 100
    /\ BurstSize = 7
    /\ BurstOf(10)
    /\ BurstBatched
    /\ BatchShapes = <<<<3, MaxWaitTimeMs>>, <<3, MaxWaitTimeMs>>, <<1, MaxWaitTimeMs>>>>

\* ---- configuration ----

\* A supplied max_wait_time_ms or max_batch_size is 0.
SuppliedZero ==
    /\ args /= None
    /\ \/ args[1].max_wait_time_ms = Some(0)
       \/ args[1].max_batch_size = Some(0)

\* C29: AppConfig::build fails exactly when a supplied max_wait_time_ms or
\* max_batch_size is 0; otherwise the configuration has the value of every
\* supplied option (the name of a supplied log level) and the default of every
\* other, and the dispatcher only ever runs with max_batch_size > 0 and
\* max_wait_time_ms > 0.
BuildValidates ==
    /\ dispatcher = "exited" => SuppliedZero
    /\ dispatcher = "running" =>
          /\ ~SuppliedZero
          /\ config.max_batch_size > 0
          /\ config.max_wait_time_ms > 0
          /\ \A f \in ArgsFields :
                IF args = None \/ args[1][f] = None
                THEN config[f] = AppConfigDefault[f]
                ELSE IF f = "log_level"
                THEN config[f] \in {"critical", "normal", "debug", "off"}
                     /\ config[f] = LogLevelToString(args[1][f][1])
                ELSE config[f] = args[1][f][1]
    /\ dispatcher = "not_started" =>
          /\ ENABLED Launch <=> ~SuppliedZero
          /\ ENABLED ExitOnError <=> SuppliedZero

\* test_build_from_partial_args: port 5000 and max_batch_size 25 supplied,
\* the rest defaulted.
BuildValidatesWitness ==
    /\ dispatcher = "running"
    /\ args /= None
    /\ config = [AppConfigDefault EXCEPT !.port = 5000, !.max_batch_size = 25]

\* ---- the order of the pending queue ----

\* C30: the pending queue is in non-decreasing received_at order (the time
\* since received_at does not grow from the head to the back), so the head is
\* the oldest queued request. It fails: a handler that is slow between its
\* stamp and its send is overtaken by one that stamped later.
QueueInReceivedAtOrder ==
    \A i, j \in 1..Len(pending_requests) :
        i < j => elapsed[pending_requests[i]] >= elapsed[pending_requests[j]]

\* ---- who changes the pending queue ----

\* C31: the pending queue is changed only by an iteration of the dispatcher
\* loop: a submission (the channel grows), the return of an upstream call and
\* its deliveries (a task ends, values are sent), a handler finishing (by a
\* reply or by its timeout) and the passing of time leave it as it is.
OnlyDispatcherMutatesQueue ==
    [][/\ pending_requests' /= pending_requests => (RecvIteration \/ TickIteration)
       /\ (\/ Len(request_channel') > Len(request_channel)
           \/ sent' /= sent
           \/ batches' /= batches /\ Len(batches') = Len(batches)
           \/ gateway' /= gateway) => pending_requests' = pending_requests]_vars

\* The first request was batched, its handler gave up and its upstream call
\* returned, all while the second request sat in the queue.
OnlyDispatcherMutatesQueueWitness ==
    /\ pending_requests = <<2>>
    /\ Len(batches) = 1
    /\ Done(1)
    /\ GaveUp(1)
    /\ sent[1] /= <<>>

\* ---- build_safe_batch ----

\* The first j requests of queue satisfy both caps.
Fits(queue, j) ==
    /\ j <= config.max_batch_size
    /\ InputSum(SubSeq(queue, 1, j)) <= config.max_inference_inputs

\* batch and rest are what a greedy-maximal build_safe_batch makes of queue.
GreedyMaximal(queue, batch, rest) ==
    /\ batch \o rest = queue
    /\ Fits(queue, Len(batch))
    /\ \A j \in (Len(batch) + 1)..Len(queue) : ~Fits(queue, j)
    /\ \/ rest = <<>>
       \/ Len(batch) = config.max_batch_size
       \/ InputSum(batch) + NumInputs(Head(rest)) > config.max_inference_inputs

\* C32: build_safe_batch returns the longest prefix of the queue that
\* satisfies both caps: on return the queue is empty, or the batch holds
\* max_batch_size requests, or the new head would bring the input sum above
\* max_inference_inputs. It holds of every call that made a batch, and of a
\* call on the queue as it is now.
BuildSafeBatchIsGreedy ==
    /\ \A k \in 1..Len(batches) :
          GreedyMaximal(batches[k].queue_before, batches[k].reqs, batches[k].queue_after)
    /\ GreedyMaximal(pending_requests, build_safe_batch(pending_requests).batch,
                     build_safe_batch(pending_requests).rest)

\* A batch stopped by the input cap alone (two requests of 3 inputs in
\* all, a third that does not fit), and a queue that build_safe_batch takes
\* nothing from.
BuildSafeBatchIsGreedyWitness ==
    /\ \E k \in 1..Len(batches) :
          /\ Len(batches[k].reqs) = 2
          /\ Len(batches[k].reqs) < config.max_batch_size
          /\ InputSum(batches[k].reqs) = config.max_inference_inputs
          /\ batches[k].queue_after /= <<>>
    /\ pending_requests /= <<>>
    /\ build_safe_batch(pending_requests).batch = <<>>

\* ---- the size of age-triggered batches ----

\* The queue has fewer than max_batch_size requests, or a head that no batch
\* can take.
ShortOrBlocked(queue) ==
    Len(queue) < config.max_batch_size \/ HeadIsOversized(queue)

\* C33: a batch tagged max_wait_time_ms has fewer than max_batch_size
\* requests, because the queue the age check looks at (the queue as it is,
\* in an iteration woken by a tick; the queue the recv branch leaves, in one
\* woken by an arrival) is shorter than max_batch_size or has a head above
\* max_inference_inputs; with max_batch_size = 1 no batch is tagged
\* max_wait_time_ms.
AgeBatchesAreShort ==
    /\ \A k \in 1..Len(batches) :
          batches[k].batch_type = MaxWaitTimeMs =>
             /\ Len(batches[k].reqs) < config.max_batch_size
             /\ config.max_batch_size /= 1
    /\ ShortOrBlocked(pending_requests)
    /\ request_channel /= <<>> =>
          ShortOrBlocked(on_request(DispatcherState, Head(request_channel)).queue)

\* An age-triggered batch of max_batch_size - 1 requests, and a queue of
\* max_batch_size requests behind an oversized head.
AgeBatchesAreShortWitness ==
    /\ config.max_batch_size = 2
    /\ \E k \in 1..Len(batches) :
          batches[k].batch_type = MaxWaitTimeMs /\ Len(batches[k].reqs) = 1
    /\ Len(pending_requests) = 2
    /\ HeadIsOversized(pending_requests)

\* ---- where a request is ----

\* The dispatcher has taken the request from the submission channel.
Received(id) == request[id] /= None /\ id \notin Range(request_channel)

\* The number of places the request is at: positions in the pending queue
\* and positions in batches.
QueuePositions(id) == {i \in 1..Len(pending_requests) : pending_requests[i] = id}
Places(id) == Cardinality(QueuePositions(id)) + Cardinality(Positions(id))

\* C34: a request the dispatcher has received is at exactly one place: in
\* the pending queue, with its reply handle unused; in one batch that is in
\* flight, with its reply handle unused; or in one batch that has returned,
\* with its reply handle consumed by exactly one send.  A request not yet
\* received is at none.
ExactlyOnePlace ==
    \A id \in Ids :
        IF Received(id)
        THEN /\ Places(id) = 1
             /\ QueuePositions(id) /= {} => sent[id] = <<>>
             /\ \A k \in BatchesOf(id) :
                   IF Done(k) THEN Len(sent[id]) = 1 ELSE sent[id] = <<>>
        ELSE Places(id) = 0 /\ sent[id] = <<>>

\* A queue of two requests that one drain split in two batches: the first
\* has returned and its request is delivered, the second is in flight.
ExactlyOnePlaceWitness ==
    /\ Len(batches) = 2
    /\ Done(1)
    /\ ~Done(2)
    /\ batches[1].queue_after = batches[2].reqs
    /\ Received(1)
    /\ Received(2)

\* ---- reply handles ----

\* The call of request id ended with 500 "Response channel closed".
EndedClosed(id) == gateway[id].outcome = Some(ErrResponse(500, ChannelClosedMessage))

\* C35: once the upstream call of a batch has returned, every request of the
\* batch has had exactly one send, of a success or of an error, and before
\* that none; no response_sender is dropped without a send while the
\* dispatcher runs, and a call that ended with 500 "Response channel closed"
\* is one whose request was never in a batch and lost its dispatcher.
OneDeliveryAttempt ==
    /\ \A k \in 1..Len(batches) :
          \A id \in Range(batches[k].reqs) :
             IF Done(k)
             THEN /\ Len(sent[id]) = 1
                  /\ sent[id][1].ok = Result(k).ok
             ELSE sent[id] = <<>>
    /\ \A id \in Ids :
          /\ dispatcher = "running" => ~SenderDropped(id)
          /\ BatchesOf(id) /= {} => ~SenderDropped(id)
          /\ EndedClosed(id) => (dispatcher = "gone" /\ BatchesOf(id) = {})
          /\ ENABLED GatewayClosed(id) => (dispatcher = "gone" /\ BatchesOf(id) = {})

\* The dispatcher has ended and one call ended with "Response channel
\* closed", while the request of the other call, which was in a batch, got
\* the error of its upstream call.
OneDeliveryAttemptWitness ==
    /\ dispatcher = "gone"
    /\ \E id \in Ids : EndedClosed(id)
    /\ \E k \in 1..Len(batches) :
          /\ Failed(k)
          /\ \A id \in Range(batches[k].reqs) : Len(sent[id]) = 1 /\ ~sent[id][1].ok

\* ---- the time spent in the pending queue ----

\* The tick periods since request id was submitted, up to
\* max_wait_time_ms + REQUEST_SLACK: what the handler's timer has counted.
\* With a dispatcher that keeps up it is the time since the request was
\* enqueued.
QueuedFor(id) == config.max_wait_time_ms + REQUEST_SLACK - gateway[id].left

\* The iteration emits a batch tagged max_wait_time_ms.
AgeDrain == \E k \in 1..Len(NewBatches) : NewBatches[k].batch_type = MaxWaitTimeMs

\* C36: an age-triggered drain emits every queued request, the ones short of
\* their own deadline included, and so a request is in the pending queue for
\* no longer than max_wait_time_ms and one tick period. (On the clock of
\* whole tick periods, with every stamp on a tick, it is out after
\* max_wait_time_ms.)
BoundedQueueingDelay ==
    /\ [](\A id \in Range(pending_requests) : QueuedFor(id) <= config.max_wait_time_ms)
    /\ [][AgeDrain =>
            /\ pending_requests' = <<>>
            /\ \A id \in Range(QueueAfterEnqueue) :
                  \E k \in 1..Len(NewBatches) : id \in Range(NewBatches[k].reqs)]_vars

\* An age-triggered drain of two requests, the second of which had not
\* waited max_wait_time_ms.
BoundedQueueingDelayWitness ==
    /\ Len(batches) >= 1
    /\ batches[1].batch_type = MaxWaitTimeMs
    /\ batches[1].queue_before = <<1, 2>>
    /\ pending_requests = <<>>
    /\ gateway[1].pc = "waiting"
    /\ gateway[2].pc = "waiting"
    /\ QueuedFor(1) = config.max_wait_time_ms
    /\ QueuedFor(2) < config.max_wait_time_ms

\* ---- a request no batch can take ----

\* The head of the pending queue has more inputs than max_inference_inputs.
Blocked == HeadIsOversized(pending_requests)

TimedOut(id) == gateway[id].outcome = Some(ErrResponse(408, TimedOutMessage))

\* C37: once a request with more than max_inference_inputs inputs is at
\* the head of the pending queue, it stays there and no batch is emitted
\* again: whatever happens, the batches stay as many and the queue only
\* grows at its back; and the call of every request in the queue, the
\* later arrivals behind the head included, ends with 408 and with nothing
\* else.
HeadOfLineBlocking ==
    /\ [][Blocked =>
            /\ Len(batches') = Len(batches)
            /\ IsPrefix(pending_requests, pending_requests')
            /\ BATCH_COUNTER' = BATCH_COUNTER]_vars
    /\ [](Blocked =>
            \A id \in Range(pending_requests) :
               sent[id] = <<>> /\ (gateway[id].pc = "done" => TimedOut(id)))
    /\ \A id \in 1..MaxRequests :
          (Blocked /\ id \in Range(pending_requests)) ~> TimedOut(id)

\* A request of one input queued behind a head of three inputs, with
\* max_inference_inputs = 2: both calls ended with 408, the queue holds both.
HeadOfLineBlockingWitness ==
    /\ Len(pending_requests) = 2
    /\ Blocked
    /\ NumInputs(pending_requests[2]) <= config.max_inference_inputs
    /\ config.max_batch_size <= 2
    /\ \A id \in Range(pending_requests) : TimedOut(id)

\* ---- the handler's timeout and the upstream's ----

\* The upstream call of batch k ended by reqwest's timeout.
UpstreamTimedOut(k) == Failed(k) /\ Result(k).error = NetworkError

\* C38: with inference_timeout_secs <= 30 the handler's timeout does not
\* expire before the upstream call of its request's batch has returned or
\* timed out: no request that is in a batch ends with 408, and the requests
\* of a batch whose upstream call timed out end with the 503 of a
\* NetworkError.  It fails when inference_timeout_secs is 30.
SlackCoversUpstreamTimeout ==
    \A k \in 1..Len(batches) :
        \A id \in Range(batches[k].reqs) :
            /\ ~TimedOut(id)
            /\ (UpstreamTimedOut(k) /\ gateway[id].pc = "done") =>
                  gateway[id].outcome = Some(ErrResponse(503, message(NetworkError)))

\* ---- an answer with too many embeddings ----

\* The upstream call of batch k succeeded with more embeddings than inputs.
LongAnswer(k) == Answered(k) /\ Len(Result(k).embeddings) > InputSum(batches[k].reqs)

\* C39: when the upstream succeeds with more embeddings than the flat
\* request has inputs, every request of the batch is sent a success with
\* exactly as many embeddings as it has inputs, the ones at its own offset in
\* the answer, and the embeddings beyond the input count are sent to no one.
LongAnswerIsDemultiplexed ==
    \A k \in 1..Len(batches) :
        LongAnswer(k) =>
            \A i \in 1..Len(batches[k].reqs) :
                LET id == batches[k].reqs[i]
                    offset == Offset(batches[k].reqs, i)
                IN  /\ Len(sent[id]) = 1
                    /\ sent[id][1].ok
                    /\ Len(sent[id][1].embeddings) = NumInputs(id)
                    /\ sent[id][1].embeddings =
                          SubSeq(Result(k).embeddings, offset + 1, offset + NumInputs(id))
                    /\ sent[id][1].embeddings = OwnEmbeddings(id)
                    /\ Surplus \notin Range(sent[id][1].embeddings)

\* A batch of two requests answered with three embeddings, and both
\* handlers have answered.
LongAnswerIsDemultiplexedWitness ==
    \E k \in 1..Len(batches) :
        /\ LongAnswer(k)
        /\ Len(batches[k].reqs) = 2
        /\ Surplus \in Range(Result(k).embeddings)
        /\ \A id \in Range(batches[k].reqs) :
              gateway[id].outcome = Some(OkResponse(OwnEmbeddings(id), batches[k].batch_info))

====
